---- MODULE Spec2Model ----
(***************************************************************************)
(* Credential store (MemoryKeyStore), usage/health ledger, rotation engine *)
(* (KeyRotator) and health sweep (HealthChecker.performHealthCheck) of     *)
(* go-llm-kit, for one provider.                                           *)
(*                                                                         *)
(* Time is a logical clock `now`; costs and token counts are small         *)
(* naturals.  A GetNextKey call holds the rotator lock from its first to   *)
(* its last step; each of its steps is one group of key-store reads, so    *)
(* that key-store writes of other goroutines can fall between them.  A     *)
(* panic ends the call (the deferred Unlock runs) with status "panic".     *)
(***************************************************************************)
EXTENDS Integers, Sequences, FiniteSets, TLC

\* ------------------------------------------------------------------ bounds
NumKeys == 2          \* API keys configured for the provider
MaxTime == 1          \* the clock stops advancing here
MaxUsage == 3         \* UpdateUsage calls recorded per key
MaxErrors == 7        \* RecordError calls recorded per key
MaxCalls == 3         \* GetNextKey calls counted

\* ------------------------------------------------------- program constants
TicksPerDay == MaxTime \* the clock covers one day and the start of the next
ErrorThreshold == 5   \* RecordError: ErrorCount > 5 marks the key unhealthy
DaysPerMonth == 31    \* time.Time.Day() is the day of the month

AllNames == <<"primary", "secondary", "backup", "extra", "spare">>
KeyNames == {AllNames[i] : i \in 1..NumKeys}
CostLimits == {0, 2}
Costs == {0, 2}
Tokens == {5}
NoIdx == 0 - 1        \* rotationIdx has no entry for the provider

RotationRoundRobin == "round_robin"
RotationLeastUsed == "least_used"
RotationCostOptimized == "cost_optimized"
RotationRandom == "random"
RotationSingle == "single"
Strategies ==
    {RotationRoundRobin, RotationLeastUsed, RotationCostOptimized,
     RotationRandom, RotationSingle}

VARIABLES
    cfg,          \* config.ProviderConfig of the provider (never written)
    keys,         \* MemoryKeyStore.keys[provider]   : name -> stored secret
    usage,        \* MemoryKeyStore.usage[provider]  : name -> KeyUsage
    health,       \* MemoryKeyStore.health[provider] : name -> healthy
    rotationIdx,  \* KeyRotator.rotationIdx[provider], NoIdx when absent
    lastUsed,     \* KeyRotator.lastUsed[provider]   : name -> time
    now,          \* the clock read by time.Now()
    call,         \* the GetNextKey call in progress (holder of kr.mu)
    sweep,        \* the performHealthCheck goroutine in progress
    hist,         \* history: GetNextKey calls counted, and whether one fell back
    fresh,        \* history: keys whose health only StoreKey and RecordError wrote
    last,         \* history: the key-store operation that made the last step
    mu,           \* KeyRotator.mu and MemoryKeyStore.mu, the two sync.RWMutex
    gor,          \* the goroutines that run an operation lock by lock
    checker,      \* HealthChecker: the Start loop, its ticker, stopCh and ctx
    log           \* history: what the specification in use keeps of past steps

vars ==
    <<cfg, keys, usage, health, rotationIdx, lastUsed, now, call, sweep,
      hist, fresh, last, mu, gor, checker, log>>

\* ------------------------------------------------------------ map helpers
Put(m, k, v) == [x \in (DOMAIN m) \cup {k} |-> IF x = k THEN v ELSE m[x]]
Del(m, k) == [x \in (DOMAIN m) \ {k} |-> m[x]]
EmptyMap == [x \in {} |-> 0]

\* time.Time.Day(): day of the month of a clock value
Day(t) == ((t \div TicksPerDay) % DaysPerMonth) + 1

\* ----------------------------------------------------------------- config
\* the secret and the rate limit the configuration gives a key: different
\* for different keys
ConfiguredSecret(name) == "sk-" \o name

RateLimitOf(name) == CHOOSE i \in 1..Len(AllNames) : AllNames[i] = name

APIKey(name, key, enabled, limit) ==
    [Name |-> name, Key |-> key, RateLimit |-> RateLimitOf(name),
     CostLimit |-> limit, Enabled |-> enabled, CostUsed |-> 0]

\* the test of line 64 on the flag alone
IsValidFlagOnly(k) == k.Enabled

IsValid(k) == k.Enabled /\ k.Key # "" /\ k.Name # ""

CanUse(k) ==
    IF ~IsValid(k) THEN FALSE
    ELSE IF k.CostLimit > 0 /\ k.CostUsed >= k.CostLimit THEN FALSE
    ELSE TRUE

GetEnabledKeys(p) == SelectSeq(p.APIKeys, LAMBDA k : IsValid(k) /\ CanUse(k))

\* ------------------------------------------------------------- key store
KeyUsage(t) ==
    [LastUsed |-> t, UsageCount |-> 0, TokensUsed |-> 0, CostUsed |-> 0,
     DailyCost |-> 0, ErrorCount |-> 0, LastError |-> ""]

\* ProviderStats before any key is counted
NoStats ==
    [TotalKeys |-> 0, HealthyKeys |-> 0, TotalCost |-> 0, TotalTokens |-> 0,
     TotalRequests |-> 0]

NoOp ==
    [op |-> "", key |-> "", err |-> "", cost |-> 0, at |-> 0, pre |-> KeyUsage(0),
     secret |-> "", stats |-> NoStats]

Op(name, k, e, c, t, u) ==
    [op |-> name, key |-> k, err |-> e, cost |-> c, at |-> t, pre |-> u,
     secret |-> "", stats |-> NoStats]

\* history: a StoreKey call and the secret it was given
StoreOp(k, secret) == [NoOp EXCEPT !.op = "StoreKey", !.key = k, !.secret = secret]

\* key, rateLimit, costLimit, usageCount and strategy are the fields of the
\* KeySelection the call builds
Idle ==
    [pc |-> "idle", primary |-> "", healthy |-> "", keyName |-> "", seen |-> "",
     fb |-> FALSE, hw |-> FALSE, status |-> "", strategy |-> "",
     key |-> "", rateLimit |-> 0, costLimit |-> 0, usageCount |-> 0]

NoSweep == [results |-> EmptyMap, written |-> {}, pending |-> "", message |-> ""]

\* history: a write to the health map while a GetNextKey call is in progress
HealthWrite(c) == IF c.pc = "idle" THEN c ELSE [c EXCEPT !.hw = TRUE]

\* KeyEncryptor: AES-GCM under the key derived from the password, with a
\* random nonce.  A ciphertext opens only under the key that sealed it.
EncryptionPassword == "default-encryption-key-change-in-production"

Nonces == {1, 2}

\* an Open that hands back the key material instead of the plaintext
DecryptWrongField(password, ciphertext) == ciphertext.under

Encrypt(password, nonce, plaintext) ==
    [nonce |-> nonce, under |-> password, sealed |-> plaintext]

DecryptErr(password, ciphertext) == ciphertext.under # password

Decrypt(password, ciphertext) == ciphertext.sealed

\* what StoreKey puts in the keys map
StoredForm(secret, nonce) ==
    IF cfg.EncryptKeys THEN Encrypt(EncryptionPassword, nonce, secret) ELSE secret

\* StoreKey leaves `last` to its caller.
StoreKeyWrites(k, secret) ==
    /\ \E nonce \in Nonces : keys' = Put(keys, k, StoredForm(secret, nonce))
    /\ usage' = Put(usage, k, KeyUsage(now))
    /\ health' = Put(health, k, TRUE)
    /\ fresh' = fresh \cup {k}
    /\ call' = HealthWrite(call)
    /\ UNCHANGED <<cfg, mu, gor, checker, log, now, rotationIdx, lastUsed, hist, sweep>>

StoreKey(k, secret) == StoreKeyWrites(k, secret) /\ last' = NoOp

\* the same call, with its argument kept in the history
StoreKeyLogged(k, secret) == StoreKeyWrites(k, secret) /\ last' = StoreOp(k, secret)

DeleteKey(k) ==
    /\ keys' = Del(keys, k)
    /\ usage' = Del(usage, k)
    /\ health' = Del(health, k)
    /\ fresh' = fresh \ {k}
    /\ call' = HealthWrite(call)
    /\ last' = NoOp
    /\ UNCHANGED <<cfg, mu, gor, checker, log, now, rotationIdx, lastUsed, hist, sweep>>

\* The daily-cost branch of UpdateUsage: u is the record with LastUsed
\* already set to the first clock reading, t the second clock reading.
DailyCostAfter(u, t, cost) ==
    IF Day(u.LastUsed) # Day(t) THEN cost ELSE u.DailyCost + cost

\* a record counted twice for one call
RecordedTwice(u, t, tokens, cost) ==
    [u EXCEPT !.LastUsed = t,
              !.UsageCount = @ + 2,
              !.TokensUsed = @ + tokens,
              !.CostUsed = @ + cost]

\* a record whose error count starts again with every call counted
RecordedClearingErrors(u, t, tokens, cost) ==
    [u EXCEPT !.LastUsed = t,
              !.UsageCount = @ + 1,
              !.TokensUsed = @ + tokens,
              !.CostUsed = @ + cost,
              !.ErrorCount = 0]

\* lines 202-205: the record with the call counted
Recorded(u, t, tokens, cost) ==
    [u EXCEPT !.LastUsed = t,
              !.UsageCount = @ + 1,
              !.TokensUsed = @ + tokens,
              !.CostUsed = @ + cost]

\* UpdateUsage reads the clock twice: the first reading is stored in
\* LastUsed, the second is the `now` of the daily-cost test, and the clock
\* may tick between the two.
UpdateUsage(k, tokens, cost) ==
    IF k \notin DOMAIN usage
    THEN /\ last' = Op("UpdateUsage", k, "NotFound", cost, now, KeyUsage(0))
         /\ UNCHANGED <<cfg, mu, gor, checker, log, now, keys, usage, health, rotationIdx, lastUsed,
                        call, sweep, hist, fresh>>
    ELSE /\ usage[k].UsageCount < MaxUsage
         /\ \E t2 \in {t \in {now, now + 1} : t <= MaxTime} :
              LET u == usage[k]
                  u1 == Recorded(u, now, tokens, cost)
                  u2 == [u1 EXCEPT !.DailyCost = DailyCostAfter(u1, t2, cost)]
              IN  /\ usage' = [usage EXCEPT ![k] = u2]
                  /\ now' = t2
                  /\ last' = Op("UpdateUsage", k, "", cost, t2, u)
         /\ UNCHANGED <<cfg, mu, gor, checker, log, keys, health, rotationIdx, lastUsed, call, sweep,
                        hist, fresh>>

\* SetHealth and RecordError leave `sweep` and `log` to their caller.
SetHealth(k, healthy) ==
    /\ health' = Put(health, k, healthy)
    /\ fresh' = fresh \ {k}
    /\ call' = HealthWrite(call)
    /\ last' = NoOp
    /\ UNCHANGED <<cfg, mu, gor, checker, keys, usage, now, rotationIdx, lastUsed, hist>>

\* the threshold test of line 275 with >= in place of >
TooManyErrorsAtThreshold(u) == u.ErrorCount >= ErrorThreshold

TooManyErrors(u) == u.ErrorCount > ErrorThreshold

RecordError(k, msg) ==
    IF k \notin DOMAIN usage
    THEN /\ last' = Op("RecordError", k, "NotFound", 0, now, KeyUsage(0))
         /\ UNCHANGED <<cfg, mu, gor, checker, now, keys, usage, health, rotationIdx, lastUsed,
                        call, hist, fresh>>
    ELSE /\ usage[k].ErrorCount < MaxErrors
         /\ LET u == [usage[k] EXCEPT !.ErrorCount = @ + 1, !.LastError = msg]
            IN  /\ usage' = [usage EXCEPT ![k] = u]
                /\ health' = IF TooManyErrors(u) THEN Put(health, k, FALSE) ELSE health
                /\ call' = IF TooManyErrors(u) THEN HealthWrite(call) ELSE call
         /\ last' = NoOp
         /\ UNCHANGED <<cfg, mu, gor, checker, keys, now, rotationIdx, lastUsed, hist, fresh>>

\* SetHealth and RecordError called from outside the health checker
\* (KeyRotator.RecordError is the dispatcher's way in)
ManualSetHealth(k, healthy) == SetHealth(k, healthy) /\ UNCHANGED <<sweep, log>>

RotatorRecordError(k, msg) == RecordError(k, msg) /\ UNCHANGED <<sweep, log>>

Tick ==
    /\ now < MaxTime
    /\ now' = now + 1
    /\ last' = NoOp
    /\ UNCHANGED <<cfg, mu, gor, checker, log, keys, usage, health, rotationIdx, lastUsed, call, sweep,
                   hist, fresh>>

\* ---------------------------------------------------- key-store reads
IsHealthyErr(k) == k \notin DOMAIN health
IsHealthy(k) == health[k]
GetKeyErr(k) ==
    \/ k \notin DOMAIN keys
    \/ (cfg.EncryptKeys /\ DecryptErr(EncryptionPassword, keys[k]))

GetKey(k) ==
    IF cfg.EncryptKeys THEN Decrypt(EncryptionPassword, keys[k]) ELSE keys[k]
GetUsageErr(k) == k \notin DOMAIN usage

\* ----------------------------------------------------------- statistics
\* ListKeys: the names in the keys map
ListKeys == DOMAIN keys

\* GetKeyStatistics: the usage record of every listed key that has one
GetKeyStatistics == [k \in {n \in ListKeys : ~GetUsageErr(n)} |-> usage[k]]

\* line 348 with the flag ignored: every key with a health entry counts
HealthyOrErrorIgnoringFlag(k) == ~IsHealthyErr(k)

\* line 348: healthy, _ := IsHealthy(...), false when IsHealthy fails
HealthyOrError(k) == ~IsHealthyErr(k) /\ IsHealthy(k)

\* the += of lines 353-355 over the keys of a map
RECURSIVE SumFn(_)
SumFn(f) ==
    IF DOMAIN f = {} THEN 0
    ELSE LET k == CHOOSE x \in DOMAIN f : TRUE
         IN  f[k] + SumFn([x \in (DOMAIN f) \ {k} |-> f[x]])

GetProviderStatistics ==
    LET keyStats == GetKeyStatistics
    IN  [TotalKeys |-> Cardinality(DOMAIN keyStats),
         HealthyKeys |-> Cardinality({k \in DOMAIN keyStats : HealthyOrError(k)}),
         TotalCost |-> SumFn([k \in DOMAIN keyStats |-> keyStats[k].CostUsed]),
         TotalTokens |-> SumFn([k \in DOMAIN keyStats |-> keyStats[k].TokensUsed]),
         TotalRequests |-> SumFn([k \in DOMAIN keyStats |-> keyStats[k].UsageCount])]

\* a GetProviderStatistics call on a store nobody writes meanwhile; the
\* result is kept in the history
GetProviderStatisticsCall ==
    /\ last' = [NoOp EXCEPT !.op = "GetProviderStatistics",
                            !.stats = GetProviderStatistics]
    /\ UNCHANGED <<cfg, mu, gor, checker, log, keys, usage, health, rotationIdx, lastUsed, now, call,
                   sweep, hist, fresh>>

\* ------------------------------------------------- selection strategies
\* selectRoundRobin: the index in use (0 when the provider has no entry),
\* the index stored for the next call, and the key at the index in use.
\* The new index is stored before the slice is indexed, so an index beyond
\* the slice panics with the cursor already advanced.
CursorOf(idx) == IF idx = NoIdx THEN 0 ELSE idx

\* a cursor that is stored back without the increment of line 146
NextCursorStuck(idx, n) == CursorOf(idx) % n

NextCursor(idx, n) == (CursorOf(idx) + 1) % n

selectRoundRobin(idx, ks) ==
    IF Len(ks) = 0 THEN [name |-> "", idx |-> idx, panic |-> FALSE]
    ELSE IF CursorOf(idx) >= Len(ks)
         THEN [name |-> "", idx |-> NextCursor(idx, Len(ks)), panic |-> TRUE]
         ELSE [name |-> ks[CursorOf(idx) + 1].Name,
               idx |-> NextCursor(idx, Len(ks)), panic |-> FALSE]

\* The test of the selectLeastUsed loop: take the key when it is the first,
\* has a smaller usage count, or the same count and an older LastUsed.
\* the comparison of line 173 without its last-used tie-break
LeastUsedBetterNoTieBreak(u, minUsage, oldestLastUsed) ==
    \/ minUsage = 0 - 1
    \/ u.UsageCount < minUsage

\* the comparison of line 173 turned round: the larger count wins
LeastUsedBetterMost(u, minUsage, oldestLastUsed) ==
    \/ minUsage = 0 - 1
    \/ u.UsageCount > minUsage

LeastUsedBetter(u, minUsage, oldestLastUsed) ==
    \/ minUsage = 0 - 1
    \/ u.UsageCount < minUsage
    \/ (u.UsageCount = minUsage /\ u.LastUsed < oldestLastUsed)

RECURSIVE ScanLeastUsed(_, _, _, _, _)
ScanLeastUsed(ks, i, best, minUsage, oldestLastUsed) ==
    IF i > Len(ks) THEN best
    ELSE IF GetUsageErr(ks[i].Name) THEN ks[i].Name
    ELSE LET u == usage[ks[i].Name]
         IN  IF LeastUsedBetter(u, minUsage, oldestLastUsed)
             THEN ScanLeastUsed(ks, i + 1, ks[i].Name, u.UsageCount, u.LastUsed)
             ELSE ScanLeastUsed(ks, i + 1, best, minUsage, oldestLastUsed)

\* a selection that reads the rotator's own last-used map instead of the
\* store's usage records
selectLeastRecentlyReturned(ks) ==
    IF \E i \in 1..Len(ks) : ks[i].Name \notin DOMAIN lastUsed
    THEN ks[CHOOSE i \in 1..Len(ks) :
               /\ ks[i].Name \notin DOMAIN lastUsed
               /\ \A j \in 1..(i - 1) : ks[j].Name \in DOMAIN lastUsed].Name
    ELSE ks[1].Name

selectLeastUsed(ks) == ScanLeastUsed(ks, 1, "", 0 - 1, now)

\* The two tests of the selectCostOptimized loop.
CostBetter(u, lowestCost) == lowestCost = 0 - 1 \/ u.DailyCost < lowestCost

\* the limit test of line 207 with <= in place of <
UnderLimitInclusive(k, u) == k.CostLimit <= 0 \/ u.DailyCost <= k.CostLimit

UnderLimit(k, u) == k.CostLimit <= 0 \/ u.DailyCost < k.CostLimit

RECURSIVE ScanCostOptimized(_, _, _, _)
ScanCostOptimized(ks, i, best, lowestCost) ==
    IF i > Len(ks) THEN best
    ELSE IF GetUsageErr(ks[i].Name)
         THEN ScanCostOptimized(ks, i + 1, ks[i].Name, lowestCost)
    ELSE LET u == usage[ks[i].Name]
         IN  IF CostBetter(u, lowestCost) /\ UnderLimit(ks[i], u)
             THEN ScanCostOptimized(ks, i + 1, ks[i].Name, u.DailyCost)
             ELSE ScanCostOptimized(ks, i + 1, best, lowestCost)

\* "" when no key was taken: every key has exceeded its cost limit
selectCostOptimized(ks) == ScanCostOptimized(ks, 1, "", 0 - 1)

\* &keys[len(keys)-1] in place of &keys[0]
selectSingleLast(ks) == ks[Len(ks)].Name

selectSingle(ks) == ks[1].Name

\* ------------------------------------------------------------ GetNextKey
Done(c, st) == [c EXCEPT !.pc = "done", !.status = st]

\* the element of ks with the given name
KeyNamed(ks, name) == ks[CHOOSE i \in 1..Len(ks) : ks[i].Name = name]

\* selectLeastUsed and selectCostOptimized return &key, the address of the
\* range variable.  With one variable per iteration (go 1.22 and later) it
\* holds the key that was taken; with one variable per loop (go 1.19 to
\* 1.21, which the README allows) it holds the key of the last iteration
\* that ran.
LeastUsedLoopVariable(ks) ==
    IF \E i \in 1..Len(ks) : GetUsageErr(ks[i].Name)
    THEN ks[CHOOSE i \in 1..Len(ks) :
                /\ GetUsageErr(ks[i].Name)
                /\ \A j \in 1..(i - 1) : ~GetUsageErr(ks[j].Name)]
    ELSE ks[Len(ks)]

CostOptimizedLoopVariable(ks) == ks[Len(ks)]

RangeVariableTargets(ks, name, loopVariable) == {KeyNamed(ks, name), loopVariable}

\* name is keyName, selectedKey the APIKey the returned pointer refers to
AfterSelect(name, selectedKey) ==
    [Idle EXCEPT !.pc = IF cfg.Rotation.HealthCheck THEN "health" ELSE "fetch",
                 !.primary = name,
                 !.keyName = name,
                 !.rateLimit = selectedKey.RateLimit,
                 !.costLimit = selectedKey.CostLimit,
                 !.strategy = cfg.Rotation.Strategy]

\* Lines 47-85: lock, enabled keys, strategy.
SelectKey ==
    /\ call.pc = "idle"
    /\ last' = NoOp
    /\ LET ks == GetEnabledKeys(cfg)
           strategy == cfg.Rotation.Strategy
       IN  IF Len(ks) = 0
           THEN /\ call' = Done(Idle, "no_enabled_keys")
                /\ UNCHANGED rotationIdx
           ELSE IF strategy = RotationLeastUsed
           THEN /\ \E selectedKey \in RangeVariableTargets(
                                        ks, selectLeastUsed(ks), LeastUsedLoopVariable(ks)) :
                     call' = AfterSelect(selectLeastUsed(ks), selectedKey)
                /\ UNCHANGED rotationIdx
           ELSE IF strategy = RotationCostOptimized
           THEN /\ IF selectCostOptimized(ks) = ""
                   THEN call' = Done(Idle, "all_keys_over_cost_limit")
                   ELSE \E selectedKey \in RangeVariableTargets(
                                ks, selectCostOptimized(ks), CostOptimizedLoopVariable(ks)) :
                          call' = AfterSelect(selectCostOptimized(ks), selectedKey)
                /\ UNCHANGED rotationIdx
           ELSE IF strategy = RotationRandom
           THEN /\ \E i \in 1..Len(ks) : call' = AfterSelect(ks[i].Name, ks[i])
                /\ UNCHANGED rotationIdx
           ELSE IF strategy = RotationSingle
           THEN /\ call' = AfterSelect(selectSingle(ks), ks[1])
                /\ UNCHANGED rotationIdx
           ELSE LET r == selectRoundRobin(rotationIdx, ks)
                IN  /\ call' = IF r.panic THEN Done(Idle, "panic")
                                ELSE AfterSelect(r.name, KeyNamed(ks, r.name))
                    /\ rotationIdx' = r.idx
    /\ UNCHANGED <<cfg, mu, gor, checker, log, keys, usage, health, lastUsed, now, sweep, fresh>>

GetNextKey == SelectKey /\ UNCHANGED hist

\* the same call, counted
GetNextKeyCounted ==
    /\ hist.calls < MaxCalls
    /\ SelectKey
    /\ hist' = [hist EXCEPT !.calls = @ + 1]

\* What GetNextKey does with the health of the selected key (lines 88-100).
AfterHealth(c, err, healthy, canFallback) ==
    IF err THEN Done([c EXCEPT !.healthy = "err"], "health_check_failed")
    ELSE IF healthy THEN [c EXCEPT !.pc = "fetch", !.healthy = "yes", !.seen = "yes"]
    ELSE IF canFallback THEN [c EXCEPT !.pc = "fallback", !.healthy = "no"]
    ELSE Done([c EXCEPT !.healthy = "no"], "unhealthy_no_fallback")

\* the test of line 95 without the FallbackEnabled flag
CanFallbackIgnoringFlag(p) == Len(GetEnabledKeys(p)) > 1

CanFallback(p) == p.Rotation.FallbackEnabled /\ Len(GetEnabledKeys(p)) > 1

CheckHealth ==
    /\ call.pc = "health"
    /\ call' = AfterHealth(call, IsHealthyErr(call.primary),
                           IF IsHealthyErr(call.primary) THEN FALSE
                           ELSE IsHealthy(call.primary),
                           CanFallback(cfg))
    /\ last' = NoOp
    /\ UNCHANGED <<cfg, mu, gor, checker, log, keys, usage, health, rotationIdx, lastUsed, now, sweep,
                   hist, fresh>>

\* getFallbackKey lines 246-254: the keys other than the excluded one that
\* the store reports healthy.
\* the filter of lines 250-255 without the health test
FallbackKeysUnfiltered(ks, excludeKey) ==
    SelectSeq(ks, LAMBDA k : k.Name # excludeKey)

FallbackKeys(ks, excludeKey) ==
    SelectSeq(ks, LAMBDA k : /\ k.Name # excludeKey
                             /\ ~IsHealthyErr(k.Name)
                             /\ IsHealthy(k.Name))

\* getFallbackKey lines 246-264
getFallbackKey ==
    /\ call.pc = "fallback"
    /\ LET fks == FallbackKeys(GetEnabledKeys(cfg), call.primary)
           r == selectRoundRobin(rotationIdx, fks)
       IN  IF Len(fks) = 0
           THEN /\ call' = Done([call EXCEPT !.fb = TRUE], "no_healthy_fallback")
                /\ UNCHANGED <<rotationIdx, hist>>
           ELSE /\ call' =
                     IF r.panic THEN Done([call EXCEPT !.fb = TRUE, !.keyName = ""], "panic")
                     ELSE [call EXCEPT
                             !.pc = "fetch", !.keyName = r.name, !.fb = TRUE,
                             !.rateLimit = KeyNamed(fks, r.name).RateLimit,
                             !.costLimit = KeyNamed(fks, r.name).CostLimit,
                             !.seen = IF ~IsHealthyErr(r.name) /\ IsHealthy(r.name)
                                      THEN "yes" ELSE "no",
                             !.strategy = RotationRoundRobin]
                /\ rotationIdx' = r.idx
                /\ hist' = [hist EXCEPT !.fellBack = TRUE]
    /\ last' = NoOp
    /\ UNCHANGED <<cfg, mu, gor, checker, log, keys, usage, health, lastUsed, now, sweep, fresh>>

updateLastUsed(m, k, t) == Put(m, k, t)

\* Lines 102-130 (and 266-287 on the fallback path): the secret, the usage
\* snapshot, the rotator's last-used time, the KeySelection.
FetchKey ==
    /\ call.pc = "fetch"
    /\ IF GetKeyErr(call.keyName)
       THEN /\ call' = Done(call, "key_retrieval_failed")
            /\ UNCHANGED lastUsed
       ELSE /\ call' = Done([call EXCEPT
                                  !.key = GetKey(call.keyName),
                                  !.usageCount = IF GetUsageErr(call.keyName) THEN 0
                                                 ELSE usage[call.keyName].UsageCount],
                            "ok")
            /\ lastUsed' = updateLastUsed(lastUsed, call.keyName, now)
    /\ last' = NoOp
    /\ UNCHANGED <<cfg, mu, gor, checker, log, keys, usage, health, rotationIdx, now, sweep, hist, fresh>>

\* The call returns and releases the rotator lock (`log` is left to the
\* caller).
ReturnCall ==
    /\ call.pc = "done"
    /\ call' = Idle
    /\ last' = NoOp
    /\ UNCHANGED <<cfg, mu, gor, checker, keys, usage, health, rotationIdx, lastUsed, now, sweep,
                   hist, fresh>>

Return == ReturnCall /\ UNCHANGED log

\* the same return, with the calls that failed in a row counted
ReturnCounted ==
    /\ ReturnCall
    /\ log' = [log EXCEPT !.streak = IF call.status = "ok" THEN 0 ELSE @ + 1]

\* ---------------------------------------------------------- health sweep
\* ValidateAllKeys for the provider's keys: a key the store cannot return
\* is reported invalid; for the others the probe decides.
ProbeOutcomes(k) == IF GetKeyErr(k) THEN {"missing"} ELSE {"valid", "invalid"}

ProbeMessage(outcome) ==
    IF outcome = "missing" THEN "Failed to retrieve key"
    ELSE IF outcome = "valid" THEN "Key is valid and active"
    ELSE "Invalid or expired API key"

\* ValidationResult.Valid
ProbeValidAlways(outcome) == TRUE

ProbeValid(outcome) == outcome = "valid"

\* performHealthCheck line 329; `checker` and `log` are left to the caller
ValidateAllKeys ==
    /\ sweep = NoSweep
    /\ \E r \in [KeyNames -> {"missing", "valid", "invalid"}] :
         /\ \A k \in KeyNames : r[k] \in ProbeOutcomes(k)
         /\ sweep' = [results |-> r, written |-> {}, pending |-> "", message |-> ""]
    /\ last' = NoOp
    /\ UNCHANGED <<cfg, mu, gor, keys, usage, health, rotationIdx, lastUsed, now, call,
                   hist, fresh>>

\* performHealthCheck line 338, for one of the results not yet written
SweepSetHealth(k) ==
    /\ sweep.pending = ""
    /\ k \in (DOMAIN sweep.results) \ sweep.written
    /\ SetHealth(k, ProbeValid(sweep.results[k]))
    /\ UNCHANGED log
    /\ sweep' = [sweep EXCEPT
                   !.written = @ \cup {k},
                   !.pending = IF ProbeValid(sweep.results[k]) THEN "" ELSE k,
                   !.message = IF ProbeValid(sweep.results[k]) THEN ""
                               ELSE ProbeMessage(sweep.results[k])]

\* performHealthCheck lines 339-341
SweepRecordError ==
    /\ sweep.pending # ""
    /\ RecordError(sweep.pending, sweep.message)
    /\ UNCHANGED log
    /\ sweep' = [sweep EXCEPT !.pending = "", !.message = ""]

\* every result is written: the goroutine ends
SweepReturn ==
    /\ sweep.results # EmptyMap
    /\ sweep.written = DOMAIN sweep.results
    /\ sweep.pending = ""
    /\ sweep' = NoSweep
    /\ last' = NoOp
    /\ UNCHANGED <<cfg, mu, gor, checker, log, keys, usage, health, rotationIdx, lastUsed, now, call,
                   hist, fresh>>

performHealthCheck ==
    \/ (ValidateAllKeys /\ UNCHANGED <<checker, log>>)
    \/ \E k \in KeyNames : SweepSetHealth(k)
    \/ SweepRecordError
    \/ SweepReturn

\* ------------------------------------------------------------------ Init
\* EncryptKeys is Global.EncryptKeys, kept with the provider's configuration
ConfigsFor(n, strategies, healthChecks, fallbacks, limits) ==
    {[APIKeys |-> [i \in 1..n |->
                     APIKey(AllNames[i], ConfiguredSecret(AllNames[i]), en[i], lim[i])],
      Rotation |-> [Strategy |-> s, HealthCheck |-> hc, FallbackEnabled |-> fb],
      EncryptKeys |-> FALSE] :
        en \in [1..n -> BOOLEAN], lim \in [1..n -> limits],
        s \in strategies, hc \in healthChecks, fb \in fallbacks}

ConfigsOf(strategies, healthChecks, fallbacks, limits) ==
    ConfigsFor(NumKeys, strategies, healthChecks, fallbacks, limits)

\* configurations in which a key may have an empty secret
ConfigsWithEmptySecrets(strategies, healthChecks, fallbacks) ==
    {[APIKeys |-> [i \in 1..NumKeys |-> APIKey(AllNames[i], sec[i], en[i], 0)],
      Rotation |-> [Strategy |-> s, HealthCheck |-> hc, FallbackEnabled |-> fb],
      EncryptKeys |-> FALSE] :
        en \in [1..NumKeys -> BOOLEAN],
        sec \in {f \in [1..NumKeys -> {""} \cup {ConfiguredSecret(AllNames[i]) : i \in 1..NumKeys}] :
                   \A i \in 1..NumKeys : f[i] \in {"", ConfiguredSecret(AllNames[i])}},
        s \in strategies, hc \in healthChecks, fb \in fallbacks}

\* the secret the configuration gives the key of that name
ConfigKey(name) ==
    cfg.APIKeys[CHOOSE i \in 1..Len(cfg.APIKeys) : cfg.APIKeys[i].Name = name].Key

\* NewKeyStoreFromConfig stores every configured key; NewKeyRotator starts
\* with empty maps.
InitStoreOf(names) ==
    /\ \E nonce \in Nonces :
         keys = [k \in names |-> StoredForm(ConfigKey(k), nonce)]
    /\ usage = [k \in names |-> KeyUsage(0)]
    /\ health = [k \in names |-> TRUE]
    /\ now = 0
    /\ sweep = NoSweep
    /\ fresh = names
    /\ last = NoOp

InitStore == InitStoreOf(KeyNames)

\* NewMemoryKeyStore: empty maps
InitEmptyStore ==
    /\ keys = EmptyMap
    /\ usage = EmptyMap
    /\ health = EmptyMap
    /\ now = 0
    /\ sweep = NoSweep
    /\ fresh = {}
    /\ last = NoOp

InitRotator ==
    /\ rotationIdx = NoIdx
    /\ lastUsed = EmptyMap
    /\ call = Idle
    /\ hist = [calls |-> 0, fellBack |-> FALSE]

\* sync.RWMutex: the goroutine holding the write lock (0 for none), the
\* goroutines holding a read lock, and the goroutines blocked in Lock, which
\* keep new readers out
RWMutex == [writer |-> 0, readers |-> {}, waiting |-> {}]

\* no goroutine runs an operation lock by lock, no health checker is
\* started, nothing is kept of past steps
InitQuiet ==
    /\ mu = [kr |-> RWMutex, store |-> RWMutex]
    /\ gor = EmptyMap
    /\ checker = [pc |-> "none"]
    /\ log = EmptyMap

CallSteps == CheckHealth \/ getFallbackKey \/ FetchKey \/ Return

\* the steps of a call for a provider without health-checking
PlainCallSteps == FetchKey \/ Return

\* ---- Spec: the rotation engine with health-checking and fallback, calls
\* ---- and key-store writes one after the other
Init ==
    /\ cfg \in ConfigsOf(Strategies, BOOLEAN, BOOLEAN, {0})
    /\ InitStore
    /\ InitRotator
    /\ InitQuiet

Next ==
    \/ GetNextKeyCounted
    \/ CallSteps
    \/ (call.pc = "idle" /\ \E k \in KeyNames : StoreKey(k, ConfiguredSecret(k)))
    \/ (call.pc = "idle" /\ \E k \in KeyNames : DeleteKey(k))
    \/ (call.pc = "idle" /\ \E k \in KeyNames, h \in BOOLEAN : ManualSetHealth(k, h))

Spec == Init /\ [][Next]_vars

\* ---- SpecConc: the same engine with the writes of other goroutines
\* ---- falling between the steps of a call
NextConc ==
    \/ GetNextKey
    \/ CallSteps
    \/ \E k \in KeyNames : StoreKey(k, ConfiguredSecret(k))
    \/ \E k \in KeyNames : DeleteKey(k)
    \/ \E k \in KeyNames, h \in BOOLEAN : ManualSetHealth(k, h)

SpecConc == Init /\ [][NextConc]_vars

\* ---- SpecCost: every strategy over keys with cost limits and recorded costs
InitCost ==
    /\ cfg \in ConfigsOf(Strategies, {FALSE}, {FALSE}, CostLimits)
    /\ InitStore
    /\ InitRotator
    /\ InitQuiet

NextCost ==
    \/ GetNextKey
    \/ PlainCallSteps
    \/ (call.pc = "idle" /\ \E k \in KeyNames, t \in Tokens, c \in Costs : UpdateUsage(k, t, c))
    \/ (call.pc = "idle" /\ \E k \in KeyNames : StoreKey(k, ConfiguredSecret(k)))
    \/ (call.pc = "idle" /\ \E k \in KeyNames : DeleteKey(k))

SpecCost == InitCost /\ [][NextCost]_vars

\* ---- SpecLeastUsed: the least-used strategy over usage counts and times
InitLeastUsed ==
    /\ cfg \in ConfigsOf({RotationLeastUsed}, {FALSE}, {FALSE}, {0})
    /\ InitStore
    /\ InitRotator
    /\ InitQuiet

NextLeastUsed ==
    \/ GetNextKey
    \/ PlainCallSteps
    \/ (call.pc = "idle" /\ \E k \in KeyNames, t \in Tokens, c \in Costs : UpdateUsage(k, t, c))
    \/ (call.pc = "idle" /\ \E k \in KeyNames : StoreKey(k, ConfiguredSecret(k)))
    \/ (call.pc = "idle" /\ \E k \in KeyNames : DeleteKey(k))
    \/ (call.pc = "idle" /\ Tick)

SpecLeastUsed == InitLeastUsed /\ [][NextLeastUsed]_vars

\* ---- SpecUsage: the usage ledger alone, over costs and days
InitUsage ==
    /\ cfg \in ConfigsOf({RotationRoundRobin}, {FALSE}, {FALSE}, {0})
    /\ InitStore
    /\ InitRotator
    /\ InitQuiet

NextUsage ==
    \/ \E k \in KeyNames, t \in Tokens, c \in Costs : UpdateUsage(k, t, c)
    \/ \E k \in KeyNames : StoreKey(k, ConfiguredSecret(k))
    \/ \E k \in KeyNames : DeleteKey(k)
    \/ Tick

SpecUsage == InitUsage /\ [][NextUsage]_vars

\* ---- SpecLedger: the error and health ledger with the health sweep
InitLedger ==
    /\ cfg \in ConfigsOf({RotationRoundRobin}, {TRUE}, {TRUE}, {0})
    /\ InitStore
    /\ InitRotator
    /\ InitQuiet

NextLedger ==
    \/ \E k \in KeyNames : RotatorRecordError(k, "timeout")
    \/ \E k \in KeyNames, h \in BOOLEAN : ManualSetHealth(k, h)
    \/ \E k \in KeyNames : StoreKey(k, ConfiguredSecret(k))
    \/ \E k \in KeyNames : DeleteKey(k)
    \/ performHealthCheck

SpecLedger == InitLedger /\ [][NextLedger]_vars

\* ---- SpecEnabled: the engine over configurations with disabled keys and
\* ---- keys without a secret
InitEnabled ==
    /\ cfg \in ConfigsWithEmptySecrets(Strategies, BOOLEAN, BOOLEAN)
    /\ InitStore
    /\ InitRotator
    /\ InitQuiet

NextEnabled ==
    \/ GetNextKey
    \/ CallSteps
    \/ (call.pc = "idle" /\ \E k \in KeyNames, h \in BOOLEAN : ManualSetHealth(k, h))

SpecEnabled == InitEnabled /\ [][NextEnabled]_vars

\* ---- SpecStore: an empty key store, with and without encryption, filled
\* ---- by StoreKey
Secrets == {"", "sk-one", "sk-two"}

InitStoreKeys ==
    /\ cfg \in {[c EXCEPT !.EncryptKeys = e] :
                   c \in ConfigsOf({RotationRoundRobin}, {FALSE}, {FALSE}, {0}),
                   e \in BOOLEAN}
    /\ InitEmptyStore
    /\ InitRotator
    /\ InitQuiet

NextStoreKeys ==
    \/ \E k \in KeyNames, secret \in Secrets : StoreKeyLogged(k, secret)
    \/ \E k \in KeyNames : DeleteKey(k)
    \/ \E k \in KeyNames, t \in Tokens : UpdateUsage(k, t, 2)
    \/ Tick

SpecStore == InitStoreKeys /\ [][NextStoreKeys]_vars

\* ---- SpecStats: provider statistics over recorded usage and health
InitStats ==
    /\ cfg \in ConfigsOf({RotationRoundRobin}, {FALSE}, {FALSE}, {0})
    /\ InitStore
    /\ InitRotator
    /\ InitQuiet

NextStats ==
    \/ \E k \in KeyNames, t \in Tokens : UpdateUsage(k, t, 2)
    \/ \E k \in KeyNames, h \in BOOLEAN : ManualSetHealth(k, h)
    \/ \E k \in KeyNames : StoreKey(k, ConfiguredSecret(k))
    \/ \E k \in KeyNames : DeleteKey(k)
    \/ GetProviderStatisticsCall

SpecStats == InitStats /\ [][NextStats]_vars

\* the tokens and the cost of one recorded call
TokensPerCall == CHOOSE t \in Tokens : TRUE

CostPerCall == CHOOSE c \in Costs : c > 0

\* ---- SpecFrame: every strategy over three enabled keys; usage is
\* ---- recorded (once per key at most) and keys are marked unhealthy before
\* ---- the first GetNextKey call, and nothing but GetNextKey calls comes
\* ---- after it
WideKeys == 3

WideNames == {AllNames[i] : i \in 1..WideKeys}

InitFrame ==
    /\ cfg \in {c \in ConfigsFor(WideKeys, Strategies, BOOLEAN, BOOLEAN, {0}) :
                  Len(GetEnabledKeys(c)) = WideKeys}
    /\ InitStoreOf(WideNames)
    /\ InitRotator
    /\ InitQuiet

NextFrame ==
    \/ GetNextKeyCounted
    \/ CallSteps
    \/ \E k \in WideNames :
          /\ hist.calls = 0
          /\ usage[k].UsageCount = 0
          /\ UpdateUsage(k, TokensPerCall, CostPerCall)
    \/ \E k \in WideNames :
          /\ hist.calls = 0
          /\ health[k]
          /\ ManualSetHealth(k, FALSE)

SpecFrame == InitFrame /\ [][NextFrame]_vars

\* ---- SpecStreak: a round-robin provider with health-checking on and
\* ---- fallback off; one enabled key stays healthy, the health of the
\* ---- others changes at any time
InitStreak ==
    /\ cfg \in ConfigsFor(WideKeys, {RotationRoundRobin}, {TRUE}, {FALSE}, {0})
    /\ InitStoreOf(WideNames)
    /\ InitRotator
    /\ mu = [kr |-> RWMutex, store |-> RWMutex]
    /\ gor = EmptyMap
    /\ checker = [pc |-> "none"]
    /\ \E i \in 1..Len(GetEnabledKeys(cfg)) :
          log = [steady |-> GetEnabledKeys(cfg)[i].Name, streak |-> 0]

NextStreak ==
    \/ GetNextKey
    \/ CheckHealth
    \/ FetchKey
    \/ ReturnCounted
    \/ \E k \in WideNames \ {log.steady}, h \in BOOLEAN :
          /\ health[k] # h
          /\ ManualSetHealth(k, h)

SpecStreak == InitStreak /\ [][NextStreak]_vars

\* ---- SpecErrors: errors recorded by the dispatcher and by the health
\* ---- sweep, health set by hand and by the sweep, usage recorded; no key
\* ---- is stored again or deleted
RecordErrorLogged(k, msg) ==
    /\ RecordError(k, msg)
    /\ UNCHANGED sweep
    /\ log' = [log EXCEPT !.relapsed =
                  IF k \in DOMAIN health /\ health[k] /\ TooManyErrors(usage[k])
                  THEN @ \cup {k} ELSE @]

InitErrors ==
    /\ cfg \in ConfigsOf({RotationRoundRobin}, {TRUE}, {FALSE}, {0})
    /\ Len(GetEnabledKeys(cfg)) = NumKeys
    /\ InitStore
    /\ InitRotator
    /\ mu = [kr |-> RWMutex, store |-> RWMutex]
    /\ gor = EmptyMap
    /\ checker = [pc |-> "none"]
    /\ log = [relapsed |-> {}]

NextErrors ==
    \/ \E k \in KeyNames : RecordErrorLogged(k, "timeout")
    \/ \E k \in KeyNames : ManualSetHealth(k, TRUE)
    \/ \E k \in KeyNames :
          /\ usage[k].UsageCount = 0
          /\ UpdateUsage(k, TokensPerCall, CostPerCall)
    \/ performHealthCheck

SpecErrors == InitErrors /\ [][NextErrors]_vars

\* ======================================================== health checker
\* HealthChecker.Start: the loop, its ticker, stopCh and the context.  A
\* select with several ready cases takes any of them.
MaxTicks == 2         \* ticks the loop receives from the ticker

\* NewHealthChecker: stopCh is open; the context is live, no sweep is launched
NewHealthChecker ==
    [pc |-> "new", stopCh |-> "open", ctx |-> "live", tick |-> FALSE,
     launched |-> 0, started |-> 0]

CheckerFrame ==
    UNCHANGED <<cfg, keys, usage, health, rotationIdx, lastUsed, now, call, sweep,
                hist, fresh, last, mu, gor>>

\* a sweep launched after Stop or after the cancellation
Late(c) == IF c.stopCh = "closed" \/ c.ctx = "done" THEN 1 ELSE 0

\* Start lines 304-308: the ticker and the first sweep
Start ==
    /\ checker.pc = "new"
    /\ checker' = [checker EXCEPT !.pc = "loop", !.launched = @ + 1]
    /\ UNCHANGED log
    /\ CheckerFrame

\* the ticker puts a tick in ticker.C (a tick the channel has no room for
\* is dropped)
TickerFire ==
    /\ checker.pc = "loop"
    /\ ~checker.tick
    /\ log.taken < MaxTicks
    /\ checker' = [checker EXCEPT !.tick = TRUE]
    /\ UNCHANGED log
    /\ CheckerFrame

\* case <-ticker.C, lines 312-313
LoopTick ==
    /\ checker.pc = "loop"
    /\ checker.tick
    /\ checker' = [checker EXCEPT !.tick = FALSE, !.launched = @ + 1]
    /\ log' = [log EXCEPT !.taken = @ + 1, !.late = @ + Late(checker)]
    /\ CheckerFrame

\* a stopCh that is never ready
StopNeverReady(c) == FALSE

\* <-hc.stopCh is ready once the channel is closed
StopReady(c) == c.stopCh = "closed"

\* case <-hc.stopCh, lines 314-315
LoopStop ==
    /\ checker.pc = "loop"
    /\ StopReady(checker)
    /\ checker' = [checker EXCEPT !.pc = "returned", !.tick = FALSE]
    /\ UNCHANGED log
    /\ CheckerFrame

\* case <-ctx.Done(), lines 316-317
LoopCancel ==
    /\ checker.pc = "loop"
    /\ checker.ctx = "done"
    /\ checker' = [checker EXCEPT !.pc = "returned", !.tick = FALSE]
    /\ UNCHANGED log
    /\ CheckerFrame

\* Stop, called once: close(hc.stopCh)
Stop ==
    /\ checker.stopCh = "open"
    /\ checker' = [checker EXCEPT !.stopCh = "closed"]
    /\ UNCHANGED log
    /\ CheckerFrame

\* the caller cancels the context given to Start
Cancel ==
    /\ checker.ctx = "live"
    /\ checker' = [checker EXCEPT !.ctx = "done"]
    /\ UNCHANGED log
    /\ CheckerFrame

\* a launched performHealthCheck goroutine starts to run, when no other
\* sweep is running; the usage records it finds are kept in the history
GoPerformHealthCheck ==
    /\ checker.launched > checker.started
    /\ ValidateAllKeys
    /\ checker' = [checker EXCEPT !.started = @ + 1]
    /\ log' = [log EXCEPT !.before = usage]

\* ---- SpecChecker: the health checker from NewHealthChecker on, its
\* ---- sweeps one after the other, keys stored and deleted between sweeps
InitChecker ==
    /\ cfg \in ConfigsOf({RotationRoundRobin}, {TRUE}, {TRUE}, {0})
    /\ InitStore
    /\ InitRotator
    /\ mu = [kr |-> RWMutex, store |-> RWMutex]
    /\ gor = EmptyMap
    /\ checker = NewHealthChecker
    /\ log = [taken |-> 0, late |-> 0, before |-> usage]

NextChecker ==
    \/ Start
    \/ TickerFire
    \/ LoopTick
    \/ LoopStop
    \/ LoopCancel
    \/ Stop
    \/ Cancel
    \/ GoPerformHealthCheck
    \/ \E k \in KeyNames : SweepSetHealth(k)
    \/ SweepRecordError
    \/ SweepReturn
    \/ (sweep = NoSweep /\ \E k \in KeyNames : StoreKey(k, ConfiguredSecret(k)))
    \/ (sweep = NoSweep /\ \E k \in KeyNames : DeleteKey(k))

SpecChecker == InitChecker /\ [][NextChecker]_vars

\* ---- SpecCheckerFair: the same, with a loop that is scheduled and a
\* ---- select that does not pass over a ready case for ever
SpecCheckerFair ==
    /\ InitChecker
    /\ [][NextChecker]_vars
    /\ WF_vars(LoopStop)
    /\ WF_vars(LoopCancel)

\* ============================================================ goroutines
\* The operations run lock by lock: each goroutine executes the program of
\* its operation, one instruction at a time, and the instructions of
\* different goroutines interleave wherever the two mutexes allow it.
MaxGoroutines == 3

Goroutines == 1..MaxGoroutines

\* an instruction and the mutex it is about ("" for the others)
Ins(i, l) == [i |-> i, l |-> l]

\* KeyRotator.GetNextKey for a round-robin provider with health-checking
\* on and fallback off
GetNextKeyProgram ==
    <<Ins("Lock", "kr"),
      Ins("GetEnabledKeys", ""),
      Ins("loadCursor", ""),
      Ins("storeCursor", ""),
      Ins("RLock", "store"), Ins("IsHealthy", ""), Ins("RUnlock", "store"),
      Ins("ifUnhealthy", ""),
      Ins("RLock", "store"), Ins("GetKey", ""), Ins("RUnlock", "store"),
      Ins("ifNoKey", ""),
      Ins("RLock", "store"), Ins("GetUsage", ""), Ins("RUnlock", "store"),
      Ins("updateLastUsed", ""),
      Ins("Unlock", "kr"),
      Ins("return", "")>>

\* MemoryKeyStore.UpdateUsage, behind KeyRotator.RecordUsage
UpdateUsageProgram ==
    <<Ins("Lock", "store"),
      Ins("loadCount", ""), Ins("storeCount", ""), Ins("storeCost", ""),
      Ins("Unlock", "store"),
      Ins("return", "")>>

\* MemoryKeyStore.RecordError, behind KeyRotator.RecordError
RecordErrorProgram ==
    <<Ins("Lock", "store"),
      Ins("loadErrors", ""), Ins("storeErrors", ""), Ins("markUnhealthy", ""),
      Ins("Unlock", "store"),
      Ins("return", "")>>

\* MemoryKeyStore.GetUsage: the copy is built field by field
GetUsageProgram ==
    <<Ins("RLock", "store"),
      Ins("copyCounts", ""), Ins("copyCosts", ""),
      Ins("RUnlock", "store"),
      Ins("return", "")>>

\* UnifiedProvider.Chat for the three providers
ChatOps == {"callOpenAI", "callAnthropic", "callGemini"}

\* what the provider's server does with the request: no answer, a status
\* other than 200, a body that is not JSON, a body without choices
\* (content, candidates), a first choice of the wrong shape, a body without
\* usage, a usage without token counts, a complete answer
ResponseKinds ==
    {"transport", "status", "undecodable", "no_choices", "bad_message",
     "no_usage", "no_token_counts", "ok"}

\* Chat lines 272-286 and the call function of the provider: getNextKey,
\* the request, then recordUsage or recordError
ChatProgram ==
    SubSeq(GetNextKeyProgram, 1, Len(GetNextKeyProgram) - 1) \o
    <<Ins("ifNoSelection", ""),
      Ins("Do", ""),
      Ins("recordUsage", ""),
      Ins("Lock", "store"),
      Ins("loadCount", ""), Ins("storeCount", ""), Ins("storeCost", ""),
      Ins("Unlock", "store"),
      Ins("afterUsage", ""),
      Ins("recordError", ""),
      Ins("Lock", "store"),
      Ins("loadErrors", ""), Ins("storeErrors", ""), Ins("markUnhealthy", ""),
      Ins("Unlock", "store"),
      Ins("afterError", ""),
      Ins("return", "")>>

\* MemoryKeyStore.StoreKey
StoreKeyProgram ==
    <<Ins("Lock", "store"), Ins("storeKey", ""), Ins("Unlock", "store"),
      Ins("return", "")>>

\* MemoryKeyStore.DeleteKey
DeleteKeyProgram ==
    <<Ins("Lock", "store"), Ins("deleteKey", ""), Ins("Unlock", "store"),
      Ins("return", "")>>

\* KeyRotator.GetRotationStatus: ListKeys under the rotator's read lock
GetRotationStatusProgram ==
    <<Ins("RLock", "kr"),
      Ins("RLock", "store"), Ins("ListKeys", ""), Ins("RUnlock", "store"),
      Ins("readRotation", ""),
      Ins("RUnlock", "kr"),
      Ins("return", "")>>

\* KeyRotator.GetProviderStatistics: GetKeyStatistics (ListKeys, then
\* GetUsage for each name), then IsHealthy for each name; the rotator's
\* mutex is not taken
GetProviderStatisticsProgram ==
    <<Ins("RLock", "store"), Ins("ListKeys", ""), Ins("RUnlock", "store"),
      Ins("forUsage", ""),
      Ins("RLock", "store"), Ins("GetUsage", ""), Ins("RUnlock", "store"),
      Ins("endUsage", ""),
      Ins("forHealth", ""),
      Ins("RLock", "store"), Ins("IsHealthy", ""), Ins("RUnlock", "store"),
      Ins("endHealth", ""),
      Ins("return", "")>>

\* HealthChecker.performHealthCheck: ValidateAllKeys (GetKey and a probe
\* for each configured name), then SetHealth for each result and
\* RecordError for each invalid one
performHealthCheckProgram ==
    <<Ins("providers", ""),
      Ins("forProbe", ""),
      Ins("RLock", "store"), Ins("GetKey", ""), Ins("RUnlock", "store"),
      Ins("ValidateKey", ""),
      Ins("endProbe", ""),
      Ins("forResult", ""),
      Ins("Lock", "store"), Ins("SetHealth", ""), Ins("Unlock", "store"),
      Ins("ifValid", ""),
      Ins("Lock", "store"),
      Ins("loadErrors", ""), Ins("storeErrors", ""), Ins("markUnhealthy", ""),
      Ins("Unlock", "store"),
      Ins("endResult", ""),
      Ins("return", "")>>

\* the operations that walk a list of key names
Walks == {"GetProviderStatistics", "performHealthCheck"}

Program(op) ==
    CASE op = "GetNextKey" -> GetNextKeyProgram
      [] op = "RecordUsage" -> UpdateUsageProgram
      [] op = "RecordError" -> RecordErrorProgram
      [] op = "GetUsage" -> GetUsageProgram
      [] op \in ChatOps -> ChatProgram
      [] op = "StoreKey" -> StoreKeyProgram
      [] op = "DeleteKey" -> DeleteKeyProgram
      [] op = "GetRotationStatus" -> GetRotationStatusProgram
      [] op = "GetProviderStatistics" -> GetProviderStatisticsProgram
      [] op = "performHealthCheck" -> performHealthCheckProgram
      [] op = "" -> <<>>

\* the locals of a goroutine: its operation and argument, its place in the
\* program, the values it has read, and what it returns
Goroutine(op, k) ==
    [op |-> op, arg |-> k, pc |-> 1, idx |-> 0, key |-> "", healthy |-> "",
     found |-> FALSE, n |-> 0, copy |-> KeyUsage(0), ret |-> "",
     used |-> 0, erred |-> 0, result |-> "", list |-> <<>>, results |-> EmptyMap]

\* the place of the one instruction of that name in the program
At(op, name) == CHOOSE i \in 1..Len(Program(op)) : Program(op)[i].i = name

\* a set of key names as the slice a range loop walks
NamesIn(S) == SelectSeq(AllNames, LAMBDA n : n \in S)

\* the key a store operation is about: its argument, or the key that the
\* Chat call selected
Target(s) == IF s.op \in ChatOps \cup Walks THEN s.key ELSE s.arg

\* what the call function does with the answer before it records anything:
\* "recordError" (lines 313-324), "error" for a return without recording,
\* "panic" for a failed type assertion, "recordUsage" otherwise.  Only
\* callOpenAI looks at the message after recordUsage (line 351); callGemini
\* asserts usageMetadata without a test (line 521).
AfterDo(op, kind) ==
    IF kind \in {"transport", "status"} THEN "recordError"
    ELSE IF kind \in {"undecodable", "no_choices"} THEN "error"
    ELSE IF kind = "bad_message"
         THEN (IF op = "callOpenAI" THEN "recordUsage" ELSE "error")
    ELSE IF kind = "no_usage"
         THEN (IF op = "callGemini" THEN "panic" ELSE "error")
    ELSE IF kind = "no_token_counts" THEN "panic"
    ELSE "recordUsage"

\* what the call function returns after recordUsage
AfterUsage(op, kind, err) ==
    IF err # "ok" THEN "error"
    ELSE IF op = "callOpenAI" /\ kind = "bad_message" THEN "error"
    ELSE "response"

Cur(g) == Program(gor[g].op)[gor[g].pc]

Running(g) == gor[g].pc <= Len(Program(gor[g].op))

\* a return that skips the deferred release
DeferredNoRelease(op, pc, l) == At(op, "return")

\* a return before the end of the program runs the deferred release of
\* mutex l: the next release of l in the program
Deferred(op, pc, l) ==
    CHOOSE i \in (pc + 1)..Len(Program(op)) :
        /\ Program(op)[i] \in {Ins("Unlock", l), Ins("RUnlock", l)}
        /\ \A j \in (pc + 1)..(i - 1) :
               Program(op)[j] \notin {Ins("Unlock", l), Ins("RUnlock", l)}

\* a Lock that does not wait for the mutex to be free
CanLockAlways(m) == TRUE

\* Lock goes through when nobody holds the mutex
CanLock(m) == m.writer = 0 /\ m.readers = {}

\* an RLock that does not wait for the writer
CanRLockAlways(m) == TRUE

\* RLock goes through when no writer holds the mutex or waits for it
CanRLock(m) == m.writer = 0 /\ m.waiting = {}

Advance(g) == [gor EXCEPT ![g].pc = @ + 1]

LockFrame ==
    UNCHANGED <<cfg, keys, usage, health, rotationIdx, lastUsed, now, call, sweep,
                hist, fresh, last, checker>>

\* Lock, first half: the writer announces itself
LockRequest(g) ==
    /\ Running(g)
    /\ Cur(g).i = "Lock"
    /\ g \notin mu[Cur(g).l].waiting
    /\ mu' = [mu EXCEPT ![Cur(g).l].waiting = @ \cup {g}]
    /\ UNCHANGED <<gor, log>>
    /\ LockFrame

\* Lock, second half
LockAcquire(g) ==
    /\ Running(g)
    /\ Cur(g).i = "Lock"
    /\ g \in mu[Cur(g).l].waiting
    /\ CanLock(mu[Cur(g).l])
    /\ mu' = [mu EXCEPT ![Cur(g).l].waiting = @ \ {g}, ![Cur(g).l].writer = g]
    /\ gor' = Advance(g)
    /\ UNCHANGED log
    /\ LockFrame

RLock(g) ==
    /\ Running(g)
    /\ Cur(g).i = "RLock"
    /\ CanRLock(mu[Cur(g).l])
    /\ mu' = [mu EXCEPT ![Cur(g).l].readers = @ \cup {g}]
    /\ gor' = Advance(g)
    /\ UNCHANGED log
    /\ LockFrame

\* history: the usage records the store held whenever its write lock was
\* released, kept by the specifications whose log has a `committed` field
Committed(l) ==
    IF l = "store" /\ "committed" \in DOMAIN log
    THEN [log EXCEPT !.committed = @ \cup {usage}]
    ELSE log

Unlock(g) ==
    /\ Running(g)
    /\ Cur(g).i = "Unlock"
    /\ mu' = [mu EXCEPT ![Cur(g).l].writer = 0]
    /\ gor' = Advance(g)
    /\ log' = Committed(Cur(g).l)
    /\ LockFrame

RUnlock(g) ==
    /\ Running(g)
    /\ Cur(g).i = "RUnlock"
    /\ mu' = [mu EXCEPT ![Cur(g).l].readers = @ \ {g}]
    /\ gor' = Advance(g)
    /\ UNCHANGED log
    /\ LockFrame

\* the store and the rotator as an instruction leaves them, with the
\* goroutine's locals; s is the goroutine before the instruction
Kept(s) ==
    [g |-> [s EXCEPT !.pc = @ + 1], usage |-> usage, health |-> health,
     keys |-> keys, rotationIdx |-> rotationIdx, lastUsed |-> lastUsed]

\* return err through the deferred release of mutex l
ReturnErr(s, l, err) ==
    [Kept(s) EXCEPT !.g.pc = Deferred(s.op, s.pc, l), !.g.ret = err]

\* the head of a range loop that ends at the instruction `end`: the next
\* name of the list, or the instruction after the loop
For(s, end) ==
    IF s.idx >= Len(s.list)
    THEN [Kept(s) EXCEPT !.g.pc = At(s.op, end) + 1, !.g.idx = 0]
    ELSE [Kept(s) EXCEPT !.g.idx = s.idx + 1, !.g.key = s.list[s.idx + 1]]

Effect(s, c) ==
    LET k == Target(s)
        ks == GetEnabledKeys(cfg)
    IN  CASE c = "GetEnabledKeys" ->
                 IF Len(ks) = 0 THEN ReturnErr(s, "kr", "no_enabled_keys") ELSE Kept(s)
          [] c = "loadCursor" -> [Kept(s) EXCEPT !.g.idx = CursorOf(rotationIdx)]
          [] c = "storeCursor" ->
                 LET r == selectRoundRobin(s.idx, ks)
                 IN  IF r.panic
                     THEN [ReturnErr(s, "kr", "panic") EXCEPT !.rotationIdx = r.idx]
                     ELSE [Kept(s) EXCEPT !.rotationIdx = r.idx, !.g.key = r.name]
          [] c = "IsHealthy" ->
                 [Kept(s) EXCEPT !.g.healthy =
                      IF IsHealthyErr(s.key) THEN "err"
                      ELSE IF IsHealthy(s.key) THEN "yes" ELSE "no"]
          [] c = "ifUnhealthy" ->
                 IF s.healthy = "err" THEN ReturnErr(s, "kr", "health_check_failed")
                 ELSE IF s.healthy = "no" THEN ReturnErr(s, "kr", "unhealthy_no_fallback")
                 ELSE Kept(s)
          [] c = "GetKey" -> [Kept(s) EXCEPT !.g.found = ~GetKeyErr(s.key)]
          [] c = "ifNoKey" ->
                 IF s.found THEN Kept(s) ELSE ReturnErr(s, "kr", "key_retrieval_failed")
          [] c = "GetUsage" ->
                 [Kept(s) EXCEPT !.g.n = IF GetUsageErr(s.key) THEN 0
                                         ELSE usage[s.key].UsageCount]
          [] c = "updateLastUsed" ->
                 [Kept(s) EXCEPT !.lastUsed = updateLastUsed(lastUsed, s.key, now),
                                 !.g.ret = "ok"]
          [] c = "loadCount" ->
                 IF k \notin DOMAIN usage THEN ReturnErr(s, "store", "NotFound")
                 ELSE [Kept(s) EXCEPT !.g.n = usage[k].UsageCount]
          [] c = "storeCount" ->
                 [Kept(s) EXCEPT !.usage[k].LastUsed = now,
                                 !.usage[k].UsageCount = s.n + 1,
                                 !.g.used = @ + 1]
          [] c = "storeCost" ->
                 [Kept(s) EXCEPT
                    !.usage[k].TokensUsed = @ + TokensPerCall,
                    !.usage[k].CostUsed = @ + CostPerCall,
                    !.usage[k].DailyCost = DailyCostAfter(usage[k], now, CostPerCall),
                    !.g.ret = "ok"]
          [] c = "loadErrors" ->
                 IF k \notin DOMAIN usage THEN ReturnErr(s, "store", "NotFound")
                 ELSE [Kept(s) EXCEPT !.g.n = usage[k].ErrorCount]
          [] c = "storeErrors" ->
                 [Kept(s) EXCEPT !.usage[k].ErrorCount = s.n + 1,
                                 !.usage[k].LastError = "timeout",
                                 !.g.erred = @ + 1]
          [] c = "markUnhealthy" ->
                 [Kept(s) EXCEPT
                    !.health = IF TooManyErrors(usage[k]) THEN Put(health, k, FALSE)
                               ELSE health,
                    !.g.ret = "ok"]
          [] c = "copyCounts" ->
                 IF k \notin DOMAIN usage THEN ReturnErr(s, "store", "NotFound")
                 ELSE [Kept(s) EXCEPT !.g.copy.LastUsed = usage[k].LastUsed,
                                      !.g.copy.UsageCount = usage[k].UsageCount,
                                      !.g.copy.TokensUsed = usage[k].TokensUsed]
          [] c = "copyCosts" ->
                 [Kept(s) EXCEPT !.g.copy.CostUsed = usage[k].CostUsed,
                                 !.g.copy.DailyCost = usage[k].DailyCost,
                                 !.g.copy.ErrorCount = usage[k].ErrorCount,
                                 !.g.copy.LastError = usage[k].LastError,
                                 !.g.ret = "ok"]
          [] c = "ifNoSelection" ->
                 IF s.ret = "ok" THEN Kept(s)
                 ELSE [Kept(s) EXCEPT !.g.pc = At(s.op, "return"),
                                      !.g.result = "no_selection"]
          [] c = "Do" ->
                 LET next == AfterDo(s.op, s.arg)
                 IN  IF next \in {"recordUsage", "recordError"}
                     THEN [Kept(s) EXCEPT !.g.pc = At(s.op, next)]
                     ELSE [Kept(s) EXCEPT !.g.pc = At(s.op, "return"),
                                          !.g.result = next]
          [] c \in {"recordUsage", "recordError"} -> Kept(s)
          [] c = "afterUsage" ->
                 [Kept(s) EXCEPT !.g.pc = At(s.op, "return"),
                                 !.g.result = AfterUsage(s.op, s.arg, s.ret)]
          [] c = "afterError" -> [Kept(s) EXCEPT !.g.result = "error"]
          [] c = "storeKey" ->
                 [Kept(s) EXCEPT
                    !.keys = Put(keys, k, StoredForm(ConfigKey(k),
                                                     CHOOSE n \in Nonces : TRUE)),
                    !.usage = Put(usage, k, KeyUsage(now)),
                    !.health = Put(health, k, TRUE),
                    !.g.ret = "ok"]
          [] c = "deleteKey" ->
                 [Kept(s) EXCEPT !.keys = Del(keys, k), !.usage = Del(usage, k),
                                 !.health = Del(health, k), !.g.ret = "ok"]
          [] c = "ListKeys" -> [Kept(s) EXCEPT !.g.list = NamesIn(ListKeys), !.g.idx = 0]
          [] c = "readRotation" ->
                 [Kept(s) EXCEPT !.g.n = CursorOf(rotationIdx), !.g.ret = "ok"]
          [] c = "providers" -> [Kept(s) EXCEPT !.g.list = NamesIn(KeyNames), !.g.idx = 0]
          [] c = "forUsage" -> For(s, "endUsage")
          [] c = "forHealth" -> For(s, "endHealth")
          [] c = "forProbe" -> For(s, "endProbe")
          [] c = "forResult" -> For(s, "endResult")
          [] c = "endUsage" -> [Kept(s) EXCEPT !.g.pc = At(s.op, "forUsage")]
          [] c = "endHealth" -> [Kept(s) EXCEPT !.g.pc = At(s.op, "forHealth")]
          [] c = "endProbe" -> [Kept(s) EXCEPT !.g.pc = At(s.op, "forProbe")]
          [] c = "endResult" -> [Kept(s) EXCEPT !.g.pc = At(s.op, "forResult")]
          [] c = "ValidateKey" ->
                 [Kept(s) EXCEPT !.g.results =
                      Put(s.results, s.key, s.found /\ ProbeValid(s.arg))]
          [] c = "SetHealth" ->
                 [Kept(s) EXCEPT !.health = Put(health, s.key, s.results[s.key])]
          [] c = "ifValid" ->
                 IF s.results[s.key]
                 THEN [Kept(s) EXCEPT !.g.pc = At(s.op, "endResult")]
                 ELSE Kept(s)
          [] c = "return" -> Kept(s)

\* an instruction that takes or releases no mutex
Exec(g) ==
    /\ Running(g)
    /\ Cur(g).i \notin {"Lock", "Unlock", "RLock", "RUnlock"}
    /\ LET e == Effect(gor[g], Cur(g).i)
       IN  /\ gor' = [gor EXCEPT ![g] = e.g]
           /\ usage' = e.usage
           /\ health' = e.health
           /\ keys' = e.keys
           /\ rotationIdx' = e.rotationIdx
           /\ lastUsed' = e.lastUsed
    /\ UNCHANGED <<cfg, now, call, sweep, hist, fresh, last, mu, checker, log>>

\* ---- SpecCallers: concurrent GetNextKey calls on a round-robin provider
\* ---- whose keys are stored and healthy
InitCallers ==
    /\ cfg \in ConfigsOf({RotationRoundRobin}, {TRUE}, {FALSE}, {0})
    /\ InitStore
    /\ InitRotator
    /\ mu = [kr |-> RWMutex, store |-> RWMutex]
    /\ gor = [g \in Goroutines |-> Goroutine("GetNextKey", "")]
    /\ checker = [pc |-> "none"]
    /\ log = EmptyMap

NextGoroutines ==
    \/ \E g \in Goroutines : LockRequest(g)
    \/ \E g \in Goroutines : LockAcquire(g)
    \/ \E g \in Goroutines : RLock(g)
    \/ \E g \in Goroutines : Unlock(g)
    \/ \E g \in Goroutines : RUnlock(g)
    \/ \E g \in Goroutines : Exec(g)

SpecCallers == InitCallers /\ [][NextGoroutines]_vars

\* ---- SpecAtomic: concurrent RecordUsage, RecordError and GetUsage calls
\* ---- on one key
LedgerOps == {"RecordUsage", "RecordError", "GetUsage"}

InitAtomic ==
    /\ cfg \in ConfigsOf({RotationRoundRobin}, {FALSE}, {FALSE}, {0})
    /\ InitStore
    /\ InitRotator
    /\ mu = [kr |-> RWMutex, store |-> RWMutex]
    /\ gor \in [Goroutines -> {Goroutine(op, AllNames[1]) : op \in LedgerOps}]
    /\ checker = [pc |-> "none"]
    /\ log = [committed |-> {usage}]

SpecAtomic == InitAtomic /\ [][NextGoroutines]_vars

\* ---- SpecDispatch: one Chat call for each provider and each kind of
\* ---- answer, the keys healthy or not
InitDispatch ==
    /\ cfg \in ConfigsOf({RotationRoundRobin}, {TRUE}, {FALSE}, {0})
    /\ \E nonce \in Nonces :
         keys = [k \in KeyNames |-> StoredForm(ConfigKey(k), nonce)]
    /\ usage = [k \in KeyNames |-> KeyUsage(0)]
    /\ health \in [KeyNames -> BOOLEAN]
    /\ now = 0
    /\ sweep = NoSweep
    /\ fresh = {}
    /\ last = NoOp
    /\ InitRotator
    /\ mu = [kr |-> RWMutex, store |-> RWMutex]
    /\ gor \in {[g \in Goroutines |-> IF g = 1 THEN Goroutine(op, kind)
                                        ELSE Goroutine("", "")] :
                  op \in ChatOps, kind \in ResponseKinds}
    /\ checker = [pc |-> "none"]
    /\ log = EmptyMap

SpecDispatch == InitDispatch /\ [][NextGoroutines]_vars

\* ---- SpecLocks: a call that takes the rotator's mutex, a second call of
\* ---- any reading kind or a health sweep, and a writer of the store, each
\* ---- in a goroutine of its own
RotatorCalls == {Goroutine("GetNextKey", ""), Goroutine("GetRotationStatus", "")}

ReadingCalls ==
    RotatorCalls \cup {Goroutine("GetProviderStatistics", ""),
                       Goroutine("performHealthCheck", "valid"),
                       Goroutine("performHealthCheck", "invalid")}

StoreWrites ==
    {Goroutine(op, AllNames[1]) :
        op \in {"RecordUsage", "RecordError", "StoreKey", "DeleteKey"}}

InitLocks ==
    /\ cfg \in ConfigsOf({RotationRoundRobin}, {TRUE}, {FALSE}, {0})
    /\ Len(GetEnabledKeys(cfg)) = NumKeys
    /\ InitStore
    /\ InitRotator
    /\ mu = [kr |-> RWMutex, store |-> RWMutex]
    /\ gor \in {[g \in Goroutines |-> IF g = 1 THEN r ELSE IF g = 2 THEN c ELSE w] :
                  r \in RotatorCalls, c \in ReadingCalls, w \in StoreWrites}
    /\ checker = [pc |-> "none"]
    /\ log = EmptyMap

SpecLocks == InitLocks /\ [][NextGoroutines]_vars

\* ================================================================ claims
Enabled == GetEnabledKeys(cfg)
EnabledNames == {Enabled[i].Name : i \in 1..Len(Enabled)}
Stored(k) == k \in DOMAIN keys /\ k \in DOMAIN usage
HealthyInStore(k) == k \in DOMAIN health /\ health[k]
InCall == call.pc \in {"health", "fallback", "fetch", "done"}
Selected == InCall /\ call.primary # ""
Returned == call.pc = "done" /\ call.status = "ok"
NoHealthyCredential == {"unhealthy_no_fallback", "no_healthy_fallback"}

\* ---------------------------------------------------------------- C1
\* the enabled credential at config position (k-1) mod N
RoundRobinAt(k) == Enabled[((k - 1) % Len(Enabled)) + 1].Name

RoundRobinProvider ==
    cfg.Rotation.Strategy = RotationRoundRobin /\ Len(Enabled) >= 1

\* C1 as stated: under RoundRobin with N >= 1 enabled credentials, the k-th
\* GetNextKey call on a fresh rotator returns the enabled credential at
\* config position (k-1) mod N.
C1_EveryCallReturnsInOrder ==
    (RoundRobinProvider /\ call.pc = "done")
        => (call.status = "ok" /\ call.keyName = RoundRobinAt(hist.calls))

\* C1 amended: as long as no call has gone through fallback re-selection,
\* the k-th call picks the enabled credential at config position
\* (k-1) mod N; if the call succeeds it returns that credential, and it
\* succeeds when the credential is stored and either health-checking is
\* off or the credential is healthy.
C1_RoundRobinOrder ==
    (RoundRobinProvider /\ InCall /\ ~hist.fellBack)
        => /\ call.primary = RoundRobinAt(hist.calls)
           /\ Returned => call.keyName = call.primary
           /\ (/\ call.pc = "done"
               /\ Stored(call.primary)
               /\ (~cfg.Rotation.HealthCheck \/ HealthyInStore(call.primary)))
                  => call.status = "ok"

\* call N+1 has returned the first credential again
C1_Witness ==
    /\ RoundRobinProvider
    /\ Len(Enabled) = 2
    /\ hist.calls = 3
    /\ ~hist.fellBack
    /\ Returned
    /\ call.keyName = Enabled[1].Name

\* ---------------------------------------------------------------- C2
KeyConfig(name) == CHOOSE k \in {cfg.APIKeys[i] : i \in 1..Len(cfg.APIKeys)} : k.Name = name

\* the credential's recorded daily cost has reached its limit
OverLimit(name) ==
    /\ KeyConfig(name).CostLimit > 0
    /\ name \in DOMAIN usage
    /\ usage[name].DailyCost >= KeyConfig(name).CostLimit

FlaggedEnabled == {cfg.APIKeys[i].Name : i \in {j \in 1..Len(cfg.APIKeys) : IsValid(cfg.APIKeys[j])}}

\* C2: a successful selection never returns a credential that is over its
\* cost limit, and when every enabled credential is over its limit the call
\* fails with NoCredentialsAvailable.
C2_NeverOverLimit ==
    call.pc = "done"
        => /\ call.status = "ok" => ~OverLimit(call.keyName)
           /\ (FlaggedEnabled # {} /\ \A k \in FlaggedEnabled : OverLimit(k))
                  => call.status = "no_enabled_keys"

\* ---------------------------------------------------------------- C3
OtherHealthy(excluded) ==
    \E k \in EnabledNames : k # excluded /\ Stored(k) /\ HealthyInStore(k)

\* the strategy's pick was found unhealthy with health-checking, fallback
\* and at least two enabled credentials
FallbackCase ==
    /\ call.pc = "done"
    /\ cfg.Rotation.HealthCheck
    /\ cfg.Rotation.FallbackEnabled
    /\ Len(Enabled) >= 2
    /\ call.healthy = "no"

\* C3: in the fallback case, when another enabled credential is healthy the
\* call succeeds with a healthy credential other than the unhealthy one and
\* reports round-robin.
C3_FallbackSucceeds ==
    (FallbackCase /\ OtherHealthy(call.primary))
        => /\ call.status = "ok"
           /\ call.keyName # call.primary
           /\ HealthyInStore(call.keyName)
           /\ call.strategy = RotationRoundRobin

\* ---------------------------------------------------------------- C4
UsageRecorded == last.op = "UpdateUsage" /\ last.err = ""

\* C4: recordUsage on a day other than the stored last-used date sets the
\* daily cost to the cost; on the same day it adds the cost.
C4_DailyCostRollover ==
    UsageRecorded
        => usage[last.key].DailyCost =
              IF Day(last.pre.LastUsed) # Day(last.at)
              THEN last.cost
              ELSE last.pre.DailyCost + last.cost

\* ---------------------------------------------------------------- C5
AllHaveUsage == \A k \in EnabledNames : k \in DOMAIN usage

\* C5: under LeastUsed, when every enabled candidate has a usage record, the
\* pick has the minimum request count, and the oldest last-used time among
\* the candidates with that count.
C5_LeastUsedPick ==
    (cfg.Rotation.Strategy = RotationLeastUsed /\ Selected /\ AllHaveUsage)
        => /\ call.primary \in EnabledNames
           /\ \A k \in EnabledNames :
                \/ usage[call.primary].UsageCount < usage[k].UsageCount
                \/ /\ usage[call.primary].UsageCount = usage[k].UsageCount
                   /\ usage[call.primary].LastUsed <= usage[k].LastUsed

\* a tie on the count decided by the older last-used time, against config order
C5_Witness ==
    /\ cfg.Rotation.Strategy = RotationLeastUsed
    /\ Returned
    /\ AllHaveUsage
    /\ Len(Enabled) = 2
    /\ call.keyName = Enabled[2].Name
    /\ usage[Enabled[1].Name].UsageCount = usage[Enabled[2].Name].UsageCount
    /\ usage[Enabled[1].Name].UsageCount >= 1
    /\ usage[Enabled[2].Name].LastUsed < usage[Enabled[1].Name].LastUsed

\* ---------------------------------------------------------------- C6
\* the candidates with a usage record that are under their limit
UnderBudget ==
    {k \in EnabledNames : k \in DOMAIN usage /\ ~OverLimit(k)}

CostOptimizedProvider ==
    cfg.Rotation.Strategy = RotationCostOptimized /\ Len(Enabled) >= 1

LowestCostPick ==
    /\ call.primary \in UnderBudget
    /\ \A k \in UnderBudget : usage[call.primary].DailyCost <= usage[k].DailyCost

\* C6 as stated: the pick is never over its limit; when some candidate is
\* under its limit, the pick is the one of them with the lowest daily cost;
\* when every candidate is at or over its limit the call fails with
\* AllCredentialsOverBudget.
C6_AlwaysLowestCost ==
    (CostOptimizedProvider /\ InCall)
        => /\ call.primary # "" => ~OverLimit(call.primary)
           /\ UnderBudget # {} => LowestCostPick
           /\ (\A k \in EnabledNames : OverLimit(k))
                  => (call.pc = "done" /\ call.status = "all_keys_over_cost_limit"
                      /\ call.keyName = "")

\* C6 amended: the pick is never over its limit; when every candidate has a
\* usage record and some candidate is under its limit, the pick is the one
\* of them with the lowest daily cost; when every candidate is at or over
\* its limit the call fails with AllCredentialsOverBudget.
C6_CostOptimizedPick ==
    (CostOptimizedProvider /\ InCall)
        => /\ call.primary # "" => ~OverLimit(call.primary)
           /\ (AllHaveUsage /\ UnderBudget # {}) => LowestCostPick
           /\ (\A k \in EnabledNames : OverLimit(k))
                  => (call.pc = "done" /\ call.status = "all_keys_over_cost_limit"
                      /\ call.keyName = "")

\* the first candidate is over its limit and the second is returned
C6_Witness ==
    /\ CostOptimizedProvider
    /\ Returned
    /\ AllHaveUsage
    /\ Len(Enabled) = 2
    /\ OverLimit(Enabled[1].Name)
    /\ call.keyName = Enabled[2].Name

\* ---------------------------------------------------------------- C7
\* C7: a stored credential whose health only StoreKey and RecordError have
\* written is healthy through its first 5 recorded errors and unhealthy from
\* the 6th; and a sweep whose probe of a credential succeeded sets its
\* health to true.
C7_ErrorsThenProbe ==
    /\ [](\A k \in fresh : health[k] = (usage[k].ErrorCount <= 5))
    /\ [][\A k \in KeyNames :
            (SweepSetHealth(k) /\ sweep.results[k] = "valid")
                => (k \in DOMAIN health' /\ health'[k])]_vars

\* a credential with 6 errors, just set healthy again by a sweep in progress
C7_Witness ==
    \E k \in KeyNames :
        /\ Stored(k)
        /\ usage[k].ErrorCount = 6
        /\ usage[k].LastError = "timeout"
        /\ k \in sweep.written
        /\ sweep.results[k] = "valid"
        /\ health[k]

\* ---------------------------------------------------------------- C8
\* C8: the credential map, the usage map and the health map hold the same
\* credential names in every reachable state.
C8_SameNames == DOMAIN keys = DOMAIN usage /\ DOMAIN usage = DOMAIN health

\* ---------------------------------------------------------------- C9
\* the strategy's pick was found unhealthy
UnhealthyPick == call.pc = "done" /\ cfg.Rotation.HealthCheck /\ call.healthy = "no"

\* C9: with the pick unhealthy, the call fails with NoHealthyCredential when
\* fallback is disabled, when there is one enabled candidate, or when no
\* other enabled candidate is healthy.
C9_NoHealthyCredential ==
    (/\ UnhealthyPick
     /\ \/ ~cfg.Rotation.FallbackEnabled
        \/ Len(Enabled) = 1
        \/ \A k \in EnabledNames \ {call.primary} : ~HealthyInStore(k))
        => (call.status \in NoHealthyCredential /\ ~Returned)

\* fallback disabled, another enabled credential healthy, the call failed
C9_Witness ==
    /\ UnhealthyPick
    /\ ~cfg.Rotation.FallbackEnabled
    /\ OtherHealthy(call.primary)
    /\ call.status = "unhealthy_no_fallback"

\* ---------------------------------------------------------------- C10
\* C10: with health-checking, a returned credential was healthy when the
\* engine read its health, and is healthy in the store at the return unless
\* the health map was written during the call.
C10_ReturnedWasHealthy ==
    (Returned /\ cfg.Rotation.HealthCheck)
        => /\ call.seen = "yes"
           /\ ~call.hw => HealthyInStore(call.keyName)

\* a credential returned through fallback with no health write in the call
C10_Witness ==
    /\ Returned
    /\ cfg.Rotation.HealthCheck
    /\ call.fb
    /\ ~call.hw
    /\ call.keyName # call.primary

\* ---------------------------------------------------------------- C11
\* the configured keys that GetNextKey may hand out: flag set, name and
\* secret not empty
UsableConfigured ==
    {cfg.APIKeys[i].Name : i \in {j \in 1..Len(cfg.APIKeys) :
        /\ cfg.APIKeys[j].Enabled
        /\ cfg.APIKeys[j].Name # ""
        /\ cfg.APIKeys[j].Key # ""}}

CountersKept(u, v) ==
    /\ v.UsageCount >= u.UsageCount
    /\ v.TokensUsed >= u.TokensUsed
    /\ v.CostUsed >= u.CostUsed
    /\ v.ErrorCount >= u.ErrorCount

\* C12: while a credential exists in the store, no operation discards its
\* usage record or lowers its request count, token count, cumulative cost
\* or error count.
C12_UsageNeverReset ==
    [][\A k \in (DOMAIN keys) \cap (DOMAIN keys') :
          /\ k \in DOMAIN usage => k \in DOMAIN usage'
          /\ (k \in DOMAIN usage /\ k \in DOMAIN usage')
                => CountersKept(usage[k], usage'[k])]_vars

\* ---------------------------------------------------------------- C13
JustStored == last.op = "StoreKey"

C14_SelectionConsistent ==
    Returned
        => /\ ~GetKeyErr(call.keyName)
           /\ call.key = GetKey(call.keyName)
           /\ call.rateLimit = KeyConfig(call.keyName).RateLimit
           /\ call.costLimit = KeyConfig(call.keyName).CostLimit

\* ---------------------------------------------------------------- C15
\* C15: a successful UpdateUsage(name, tokens, cost) adds 1 to the request
\* count of that credential, tokens to its token count and cost to its
\* cumulative cost, and changes no other usage record, no health flag, no
\* stored secret and not the rotation cursor.
C15_RecordUsageFrame ==
    [][\A k \in KeyNames, t \in Tokens, c \in Costs :
          (k \in DOMAIN usage /\ UpdateUsage(k, t, c))
             => /\ DOMAIN usage' = DOMAIN usage
                /\ usage'[k].UsageCount = usage[k].UsageCount + 1
                /\ usage'[k].TokensUsed = usage[k].TokensUsed + t
                /\ usage'[k].CostUsed = usage[k].CostUsed + c
                /\ usage'[k].ErrorCount = usage[k].ErrorCount
                /\ \A j \in (DOMAIN usage) \ {k} : usage'[j] = usage[j]
                /\ health' = health
                /\ keys' = keys
                /\ rotationIdx' = rotationIdx]_vars

\* a second use recorded for a credential while the other has its own
\* record and the cursor has moved
C15_Witness ==
    /\ UsageRecorded
    /\ last.cost = 2
    /\ usage[last.key].UsageCount = 2
    /\ usage[last.key].CostUsed = last.pre.CostUsed + 2
    /\ \E j \in (DOMAIN usage) \ {last.key} : usage[j].UsageCount = 1
    /\ rotationIdx # NoIdx

\* ---------------------------------------------------------------- C16
\* C16: for a name that is not stored, IsHealthy and GetUsage fail with
\* NotFound, and an UpdateUsage or RecordError that was just called for it
\* failed with NotFound.
C16_NotFoundForUnknown ==
    \A k \in KeyNames \ DOMAIN keys :
        /\ IsHealthyErr(k)
        /\ GetUsageErr(k)
        /\ (last.key = k /\ last.op \in {"UpdateUsage", "RecordError"})
              => last.err = "NotFound"

\* ---------------------------------------------------------------- C17
\* credentials a and b are the two candidates of a LeastUsed provider, each
\* with a usage record
LeastUsedPair(a, b) ==
    /\ cfg.Rotation.Strategy = RotationLeastUsed
    /\ a # b
    /\ EnabledNames = {a, b}
    /\ AllHaveUsage

\* C17 as stated, its second part: when A has 3 recorded uses and the call
\* returns B, selected with 1 recorded use, B's usage count is 2 after the
\* selection.
C17_SelectionCountsUse ==
    \A a \in KeyNames, b \in KeyNames :
        (/\ LeastUsedPair(a, b)
         /\ Returned
         /\ usage[a].UsageCount = 3
         /\ call.keyName = b
         /\ call.usageCount = 1)
            => usage[b].UsageCount = 2

\* C17 amended: with A at 3 recorded uses and B at 1 the call returns B and
\* leaves B's count as it was; a recordUsage for B then raises it by one;
\* calls keep returning B while B's count is below A's; with equal counts
\* the credential with the older last-used time is returned.
C17_LeastUsedScenario ==
    /\ \A a \in KeyNames, b \in KeyNames :
          LeastUsedPair(a, b)
             => /\ (Selected /\ usage[b].UsageCount < usage[a].UsageCount)
                      => call.primary = b
                /\ (Selected /\ usage[a].UsageCount = usage[b].UsageCount
                             /\ usage[a].LastUsed < usage[b].LastUsed)
                      => call.primary = a
                /\ (Returned /\ call.keyName = b)
                      => usage[b].UsageCount = call.usageCount
    /\ UsageRecorded => usage[last.key].UsageCount = last.pre.UsageCount + 1

\* A has 3 recorded uses, B has 1 and is returned
C17_Witness ==
    \E a \in KeyNames, b \in KeyNames :
        /\ LeastUsedPair(a, b)
        /\ Returned
        /\ usage[a].UsageCount = 3
        /\ usage[b].UsageCount = 1
        /\ call.keyName = b
        /\ call.usageCount = 1

\* ---------------------------------------------------------------- C18
SingleProvider == cfg.Rotation.Strategy = RotationSingle /\ Len(Enabled) >= 1

\* C18 as stated: under Single every call returns the first enabled
\* credential in config order.
C18_SingleAlwaysFirst ==
    (SingleProvider /\ call.pc = "done")
        => (call.status = "ok" /\ call.keyName = Enabled[1].Name)

\* C18 amended: under Single every call picks the first enabled credential
\* in config order whatever the cursor holds; a call that succeeds without
\* fallback returns it, and the call succeeds when that credential is stored
\* and either health-checking is off or the credential is healthy; no step
\* other than the fallback re-selection changes the rotation cursor.
C18_SinglePick ==
    /\ []((SingleProvider /\ InCall)
            => /\ call.primary = Enabled[1].Name
               /\ (Returned /\ ~call.fb) => call.keyName = Enabled[1].Name
               /\ (/\ call.pc = "done"
                   /\ ~call.fb
                   /\ Stored(call.primary)
                   /\ (~cfg.Rotation.HealthCheck \/ HealthyInStore(call.primary)))
                      => call.status = "ok")
    /\ [][(SingleProvider /\ call.pc # "fallback")
             => rotationIdx' = rotationIdx]_vars

\* the first credential returned again after an earlier call fell back and
\* moved the cursor
C18_Witness ==
    /\ SingleProvider
    /\ Returned
    /\ ~call.fb
    /\ hist.fellBack
    /\ rotationIdx # NoIdx
    /\ call.keyName = Enabled[1].Name

\* ---------------------------------------------------------------- C19
StatsReturned == last.op = "GetProviderStatistics"

\* the total of a usage counter over the stored credentials, name by name
CostOfStored(i) ==
    IF AllNames[i] \in DOMAIN keys THEN usage[AllNames[i]].CostUsed ELSE 0

TokensOfStored(i) ==
    IF AllNames[i] \in DOMAIN keys THEN usage[AllNames[i]].TokensUsed ELSE 0

RequestsOfStored(i) ==
    IF AllNames[i] \in DOMAIN keys THEN usage[AllNames[i]].UsageCount ELSE 0

RECURSIVE TotalUpTo(_, _)
TotalUpTo(f, n) == IF n = 0 THEN 0 ELSE f[n] + TotalUpTo(f, n - 1)

\* C19: GetProviderStatistics on a quiescent store returns the number of
\* stored credentials, the number of them whose health flag is true (at
\* most the total), and the sums of their cost, token and request counters;
\* the call writes no usage record, health flag, secret or cursor.
C19_ProviderStatistics ==
    /\ [](StatsReturned
            => /\ last.stats.TotalKeys = Cardinality(DOMAIN keys)
               /\ last.stats.HealthyKeys =
                     Cardinality({k \in DOMAIN keys : HealthyInStore(k)})
               /\ last.stats.HealthyKeys <= last.stats.TotalKeys
               /\ last.stats.TotalCost =
                     TotalUpTo([i \in 1..NumKeys |-> CostOfStored(i)], NumKeys)
               /\ last.stats.TotalTokens =
                     TotalUpTo([i \in 1..NumKeys |-> TokensOfStored(i)], NumKeys)
               /\ last.stats.TotalRequests =
                     TotalUpTo([i \in 1..NumKeys |-> RequestsOfStored(i)], NumKeys))
    /\ [][GetProviderStatisticsCall
             => UNCHANGED <<usage, health, keys, rotationIdx>>]_vars

\* two stored credentials with recorded usage, one of them unhealthy
C19_Witness ==
    /\ StatsReturned
    /\ last.stats.TotalKeys = 2
    /\ last.stats.HealthyKeys = 1
    /\ last.stats.TotalRequests = 3
    /\ last.stats.TotalCost = 6
    /\ \A k \in DOMAIN usage : usage[k].UsageCount >= 1

\* ---------------------------------------------------------------- C20
\* C20: a round-robin selection over a non-empty list never indexes past
\* the list, so no call ends in an index-out-of-range panic, and the stored
\* cursor stays below the number of enabled credentials, the longest list
\* it is ever applied to.
C20_CursorIndexesList ==
    /\ call.status # "panic"
    /\ (rotationIdx # NoIdx /\ Len(Enabled) >= 1) => rotationIdx < Len(Enabled)

\* ---------------------------------------------------------------- C21
CallersDone == \A g \in Goroutines : ~Running(g)

\* the calls that returned the credential
ReturnedCount(name) ==
    Cardinality({g \in Goroutines : gor[g].ret = "ok" /\ gor[g].key = name})

\* the calls that read the cursor value i
CursorCount(i) ==
    Cardinality({g \in Goroutines :
                   gor[g].op = "GetNextKey" /\ gor[g].ret = "ok" /\ gor[g].idx = i})

\* the calls among m sequential ones on a fresh rotator that use cursor i
SequentialCount(m, n, i) == Cardinality({j \in 0..(m - 1) : j % n = i})

\* the goroutine has read the cursor and not yet stored the next one
HoldsCursor(g) == Running(g) /\ Cur(g).i = "storeCursor"

\* C21: concurrent GetNextKey calls on a round-robin provider with N
\* enabled, healthy credentials lose no cursor update: no two calls hold the
\* same cursor value without an increment between them, and when the m
\* calls have returned, each cursor value was used as often as by m
\* sequential calls and each credential was returned floor(m/N) or
\* ceil(m/N) times.
C21_NoLostCursorUpdate ==
    Len(Enabled) >= 1
        => /\ \A g1, g2 \in Goroutines : (HoldsCursor(g1) /\ HoldsCursor(g2)) => g1 = g2
           /\ CallersDone
                 => /\ \A g \in Goroutines : gor[g].ret = "ok"
                    /\ \A i \in 0..(Len(Enabled) - 1) :
                         /\ CursorCount(i) = SequentialCount(MaxGoroutines, Len(Enabled), i)
                         /\ ReturnedCount(Enabled[i + 1].Name) = CursorCount(i)
                         /\ ReturnedCount(Enabled[i + 1].Name) \in
                              {MaxGoroutines \div Len(Enabled),
                               (MaxGoroutines + Len(Enabled) - 1) \div Len(Enabled)}

\* one call has returned the first credential, a second holds the rotator
\* lock with the second credential picked, a third waits for the lock
C21_Witness ==
    /\ Len(Enabled) = 2
    /\ \E g1, g2, g3 \in Goroutines :
         /\ ~Running(g1) /\ gor[g1].ret = "ok" /\ gor[g1].key = Enabled[1].Name
         /\ mu.kr.writer = g2 /\ gor[g2].key = Enabled[2].Name
         /\ g3 \in mu.kr.waiting

\* ---------------------------------------------------------------- C22
OpCount(op) == Cardinality({g \in Goroutines : gor[g].op = op})

\* the records the key had at the instants the store's write lock was free
CommittedRecords(k) == {u[k] : u \in {c \in log.committed : k \in DOMAIN c}}

\* C22: RecordUsage, RecordError and GetUsage are atomic with respect to
\* each other: when k concurrent RecordUsage and e concurrent RecordError
\* calls on one credential have returned, its request count has grown by
\* exactly k and its error count by exactly e; every GetUsage result is
\* the record the store held at one instant between updates, never a
\* partly applied update; and a result, once returned, does not change
\* when the store is written later.
C22_LedgerAtomic ==
    /\ [](/\ CallersDone
             => /\ usage[AllNames[1]].UsageCount = OpCount("RecordUsage")
                /\ usage[AllNames[1]].ErrorCount = OpCount("RecordError")
          /\ \A g \in Goroutines :
               (gor[g].op = "GetUsage" /\ gor[g].ret = "ok")
                  => gor[g].copy \in CommittedRecords(gor[g].arg))
    /\ [][\A g \in Goroutines :
             (gor[g].op = "GetUsage" /\ ~Running(g)) => gor'[g].copy = gor[g].copy]_vars

\* a GetUsage call has returned the record as it was after the RecordUsage
\* call and before the RecordError call, and both updates are in the store
C22_Witness ==
    /\ CallersDone
    /\ OpCount("RecordUsage") = 1
    /\ OpCount("RecordError") = 1
    /\ usage[AllNames[1]].UsageCount = 1
    /\ usage[AllNames[1]].ErrorCount = 1
    /\ \E g \in Goroutines :
         /\ gor[g].op = "GetUsage"
         /\ gor[g].copy.UsageCount = 1
         /\ gor[g].copy.ErrorCount = 0
         /\ gor[g].copy # usage[AllNames[1]]

\* ---------------------------------------------------------------- C23
\* C23: once Stop has been called or the context has been cancelled, the
\* Start loop launches no further health sweep, whatever ticks are pending
\* or arrive afterwards.
C23_NoSweepAfterStop == log.late = 0

\* ---------------------------------------------------------------- C24
Stopped == checker.stopCh = "closed" \/ checker.ctx = "done"

\* C24: after Stop is called or the context is cancelled, the Start loop
\* eventually returns, whether or not sweeps are in flight and whether or
\* not the ticker keeps firing.
C24_StartReturns == (checker.pc = "loop" /\ Stopped) ~> (checker.pc = "returned")

\* Start has returned after Stop, with ticks received and a sweep still
\* running
C24_Witness ==
    /\ checker.pc = "returned"
    /\ checker.stopCh = "closed"
    /\ checker.ctx = "live"
    /\ log.taken >= 1
    /\ sweep # NoSweep

\* ---------------------------------------------------------------- C25
\* every result of the running sweep is written to the store
SweepComplete ==
    /\ sweep.results # EmptyMap
    /\ sweep.written = DOMAIN sweep.results
    /\ sweep.pending = ""

\* C25: Start launches one health sweep at once and one more for each tick
\* its loop receives; when a sweep completes with no other writer at work,
\* every stored credential of the sweep set has its health flag equal to
\* its probe result, a failed probe has raised its error count by exactly
\* one and stored the probe message as last error, and a successful probe
\* has left error count and last error as they were.
C25_SweepWritesResults ==
    /\ checker.pc = "new" => checker.launched = 0
    /\ checker.pc \in {"loop", "returned"} => checker.launched = 1 + log.taken
    /\ SweepComplete =>
         \A k \in DOMAIN sweep.results :
            (Stored(k) /\ k \in DOMAIN log.before)
               => /\ k \in DOMAIN health
                  /\ health[k] = (sweep.results[k] = "valid")
                  /\ sweep.results[k] = "valid"
                        => /\ usage[k].ErrorCount = log.before[k].ErrorCount
                           /\ usage[k].LastError = log.before[k].LastError
                  /\ sweep.results[k] # "valid"
                        => /\ usage[k].ErrorCount = log.before[k].ErrorCount + 1
                           /\ usage[k].LastError = ProbeMessage(sweep.results[k])

\* the sweep launched by a tick is complete: one probe failed for the
\* second time, the other succeeded after an earlier failure
C25_Witness ==
    /\ SweepComplete
    /\ log.taken >= 1
    /\ checker.started >= 2
    /\ \E k1, k2 \in KeyNames :
         /\ Stored(k1) /\ Stored(k2)
         /\ sweep.results[k1] = "invalid" /\ usage[k1].ErrorCount = 2 /\ ~health[k1]
         /\ sweep.results[k2] = "valid" /\ usage[k2].ErrorCount = 1 /\ health[k2]

\* ---------------------------------------------------------------- C26
\* the Chat call has returned after it obtained a Selection
Dispatched(g) ==
    gor[g].op \in ChatOps /\ ~Running(g) /\ gor[g].result # "no_selection"

\* C26: for every Chat call that obtained a Selection: if it returns a
\* response, usage was recorded exactly once for the selected credential
\* and no error was recorded; if it returns an error (transport failure,
\* status other than 200, malformed or incomplete body), an error was
\* recorded against the selected credential and no usage was recorded.
C26_RecordsMatchResult ==
    \A g \in DOMAIN gor :
        Dispatched(g)
            => /\ gor[g].result = "response" => (gor[g].used = 1 /\ gor[g].erred = 0)
               /\ gor[g].result = "error" => (gor[g].erred >= 1 /\ gor[g].used = 0)


\* ================================================================== C27
\* C27 (as stated): a GetNextKey call writes nothing into the store (no
\* usage record, health flag or stored secret changes in any of its steps),
\* and so, under LeastUsed or CostOptimized, the calls made while the store
\* is left alone all return the same credential.
GetNextKeyReadsOnly ==
    [][(call' # call) => UNCHANGED <<keys, usage, health>>]_vars

UsageDriven == cfg.Rotation.Strategy \in {RotationLeastUsed, RotationCostOptimized}

C27_SameCredentialAlways ==
    /\ GetNextKeyReadsOnly
    /\ [](UsageDriven => Cardinality(DOMAIN lastUsed) <= 1)

\* C27 (amended): a GetNextKey call writes nothing into the store, and
\* under LeastUsed or CostOptimized the calls made while the store is left
\* alone return the same credential as long as none of them is served by
\* the fallback path, which picks by the cursor that every such call moves.
C27_SameCredentialWithoutFallback ==
    /\ GetNextKeyReadsOnly
    /\ []((UsageDriven /\ ~hist.fellBack) => Cardinality(DOMAIN lastUsed) <= 1)

\* three LeastUsed calls in a row have returned one and the same credential,
\* and it is not the first configured one
C27_Witness ==
    /\ cfg.Rotation.Strategy = RotationLeastUsed
    /\ hist.calls = MaxCalls
    /\ ~hist.fellBack
    /\ Returned
    /\ DOMAIN lastUsed = {call.keyName}
    /\ call.keyName # cfg.APIKeys[1].Name


\* ================================================================== C28
\* C28: no interleaving of GetNextKey, GetRotationStatus,
\* GetProviderStatistics, RecordUsage, RecordError, StoreKey, DeleteKey and
\* the health sweep deadlocks: as long as a goroutine has not returned some
\* goroutine can take a step, a goroutine that holds the store's mutex
\* takes no other mutex, and a goroutine that has returned holds nothing.
Holds(g, l) == mu[l].writer = g \/ g \in mu[l].readers

CanStep(g) ==
    /\ Running(g)
    /\ (Cur(g).i = "Lock") =>
           (g \notin mu[Cur(g).l].waiting \/ CanLock(mu[Cur(g).l]))
    /\ (Cur(g).i = "RLock") => CanRLock(mu[Cur(g).l])

Blocked(g) == Running(g) /\ ~CanStep(g)

C28_NoDeadlock ==
    /\ (\E g \in Goroutines : Running(g)) => (\E g \in Goroutines : CanStep(g))
    /\ \A g \in Goroutines :
          (Running(g) /\ Holds(g, "store")) => Cur(g).i \notin {"Lock", "RLock"}
    /\ \A g \in Goroutines :
          ~Running(g) =>
              \A l \in DOMAIN mu : ~Holds(g, l) /\ g \notin mu[l].waiting

\* a goroutine holds the rotator's mutex and waits to read the store behind
\* a writer that has announced itself, while another goroutine waits for
\* the rotator's mutex
C28_Witness ==
    \E a, b, c \in Goroutines :
        /\ mu.kr.writer = a
        /\ Blocked(a)
        /\ Cur(a) = Ins("RLock", "store")
        /\ Blocked(b)
        /\ Cur(b).l = "kr"
        /\ c \in mu.store.waiting


\* ================================================================== C29
\* C29: under RoundRobin with health-checking on and fallback off, a call
\* that fails because its candidate is unhealthy has moved the cursor past
\* that candidate, and with N enabled keys of which one stays healthy fewer
\* than N calls in a row fail.
FailedUnhealthy == call.pc = "done" /\ call.status = "unhealthy_no_fallback"

PositionOf(name) ==
    CHOOSE i \in 1..Len(GetEnabledKeys(cfg)) : GetEnabledKeys(cfg)[i].Name = name

C29_FailureAdvancesCursor ==
    /\ FailedUnhealthy =>
           rotationIdx = PositionOf(call.keyName) % Len(GetEnabledKeys(cfg))
    /\ log.streak < Len(GetEnabledKeys(cfg))

\* with three enabled keys, two calls in a row have failed on unhealthy
\* candidates and the third returns the key that stayed healthy
C29_Witness ==
    /\ Len(GetEnabledKeys(cfg)) = WideKeys
    /\ log.streak = WideKeys - 1
    /\ Returned
    /\ call.keyName = log.steady


\* ================================================================== C30
\* C30: no step of a successful probe, of SetHealth(true) or of recordUsage
\* lowers a key's error count, and an error recorded for a key that already
\* has more than five leaves the key unhealthy, so a key restored to healthy
\* with more than five errors is unhealthy again after one more.
ErrorCountKept(k) == usage'[k].ErrorCount >= usage[k].ErrorCount

ErrorRecorded(k) == usage'[k].ErrorCount > usage[k].ErrorCount

C30_ErrorsOutliveRestore ==
    [][\A k \in KeyNames :
          /\ ErrorCountKept(k)
          /\ (ErrorRecorded(k) /\ TooManyErrors(usage[k])) => ~health'[k]]_vars

\* a key that was healthy with more than five errors, and had its usage
\* recorded, is unhealthy after one more error
C30_Witness ==
    \E k \in log.relapsed :
        /\ ~health[k]
        /\ usage[k].ErrorCount = ErrorThreshold + 2
        /\ usage[k].UsageCount > 0

====
